---- MODULE Spec2Model ----
(***************************************************************************)
(* Topology synthesis of tsn_case_gen_ (domain/topology_generator.py):     *)
(* TopologyGenerator.generate() as a state machine.  One run builds the    *)
(* domain graphs (base graph, switches, switch-to-switch edges, end        *)
(* systems), assembles the bidirectional Link records and connects the     *)
(* domains.  sys.exit(1) and uncaught library errors are the state "exit". *)
(* Route generation (domain/route_generator.py): RouteGenerator.generate() *)
(* as a state machine over the streams of a list, and _find_paths and      *)
(* _calculate_min_e2e_delay as calls of their own.                         *)
(***************************************************************************)
EXTENDS Integers, Sequences, FiniteSets, TLC

VARIABLES
    cfg,                \* the constructor arguments (self.num_domains, ...)
    pc,                 \* position inside generate()
    domain_id,          \* loop variable of generate()'s domain loop
    switch_counter,     \* self.switch_counter
    node_counter,       \* self.node_counter
    link_counter,       \* self.link_counter
    used_ports,         \* self.used_ports: switch id -> set of used ports
    domain_graphs,      \* self.domain_graphs
    G,                  \* the graph _generate_domain_graph is building
    base_edges,         \* base_graph.edges() not yet turned into switch edges
    remaining_end_systems,      \* local of _generate_domain_graph
    switch_end_system_counts,   \* local of _generate_domain_graph
    topology,           \* the topology dict of generate()
    rng,                \* state of the random module, as far as delays go
    pending,            \* domain pairs still to be handed to _connect_domain_pair
    handed,             \* the pairs handed to _connect_domain_pair so far
    call,               \* the running (or last) _connect_domain_pair call
    warnings,           \* number of logger.warning calls so far
    exit_at,            \* where the run was terminated ("" while it is alive)
    conns,              \* history: the logical connections made, with the port
                        \* allocated on each end
    gnp,                \* one isolated _get_next_port call (SpecPort)
    \* RouteGenerator (domain/route_generator.py); its self.topology is the
    \* variable topology
    streams,            \* self.streams["streams"]
    traffic_types,      \* self.traffic_types
    consider_link_utilization,  \* self.consider_link_utilization
    graph,              \* self.graph: the undirected routing graph
    link_utilization,   \* self.link_utilization: link id -> utilization
    routes,             \* routes_def["routes"] of generate()
    stream_index,       \* position of generate()'s loop in the stream list
    destination_index,  \* position of the destination loop of a stream
    all_paths,          \* local of _generate_route_for_stream
    route,              \* local of _generate_route_for_stream
    np_random,          \* state of numpy's generator, as far as delays go
    np_seed,            \* the state np.random.seed left it in
    find_paths_call,    \* one isolated _find_paths call (SpecFindPaths)
    delay_call,         \* one isolated _calculate_min_e2e_delay call (SpecDelay)
    found_paths,        \* what _find_paths has returned, by its arguments
    first_run           \* the outcome of the first of two runs (SpecRepeat)

gen_vars == <<cfg, pc, domain_id, switch_counter, node_counter, link_counter,
              used_ports, domain_graphs, G, base_edges, remaining_end_systems,
              switch_end_system_counts, topology, rng, pending, handed, call,
              warnings, exit_at, conns>>

route_vars == <<streams, traffic_types, consider_link_utilization, graph,
                link_utilization, routes, stream_index, destination_index,
                all_paths, route, np_random, np_seed, find_paths_call,
                delay_call, found_paths, first_run>>

vars == <<gen_vars, gnp, route_vars>>

----------------------------------------------------------------------------
(* Bounds of the model *)

MaxDomains == 6             \* num_domains
MaxSwitches == 6            \* num_switches (per domain)
MaxEndSystems == 5          \* num_end_systems (per domain)
MaxPlacements == 1300       \* single domain: base graphs * num_switches ^ num_end_systems
MaxMultiDomainNodes == 6    \* several domains: num_domains * (switches + end systems)
MaxRandomNodes == 4         \* binomial / geometric runs: total number of nodes
MaxRandomPlans == 150       \* "random" connection strategy: trees * extra-pair samples
MaxMeshDim == 3             \* mesh parameters n, m
MaxTreeH == 2               \* tree parameter h
MaxRings == 2               \* cwsg_num_rings
MaxConnectionsPerPair == 2  \* connections_per_domain_pair

(* Program constants *)

PortCount == 8              \* range(8) in _get_next_port, "ports": 8
MaxEsPerSwitch == 4         \* switch_end_system_counts[s] < 4

----------------------------------------------------------------------------
(* Small helpers *)

Min(a, b) == IF a < b THEN a ELSE b
Max(a, b) == IF a > b THEN a ELSE b

RECURSIVE Pow(_, _)
Pow(b, e) == IF e <= 0 THEN 1 ELSE b * Pow(b, e - 1)

Range(s) == {s[i] : i \in DOMAIN s}

\* list(range(a, b))
RECURSIVE RangeSeq(_, _)
RangeSeq(a, b) == IF a >= b THEN <<>> ELSE <<a>> \o RangeSeq(a + 1, b)

\* a faulty removal: the list is left as it is
RemoveNothing(s, x) == s

\* a list without its first occurrence of x (list.remove)
RECURSIVE Remove(_, _)
Remove(s, x) ==
    IF s = <<>> THEN <<>>
    ELSE IF Head(s) = x THEN Tail(s)
    ELSE <<Head(s)>> \o Remove(Tail(s), x)

\* position of the first x in the list s (0 when absent)
IndexOf(s, x) ==
    IF \E i \in 1..Len(s) : s[i] = x
    THEN CHOOSE i \in 1..Len(s) : s[i] = x /\ \A j \in 1..(i - 1) : s[j] # x
    ELSE 0

SwitchId(k) == <<"SW", k>>
EndSystemId(k) == <<"ES", k>>

----------------------------------------------------------------------------
(* Constructor arguments.  topology_params is the parsed dictionary: a     *)
(* function from the keys present to their values; "empty" says that the   *)
(* parameter string itself is empty.                                       *)

TopologyTypes == {"mesh_graph", "binomial_graph", "industrial_ring_graph",
                  "random_geometric_graph", "tree_graph", "unknown_graph"}

ConnectionTypes == {"none", "line", "square", "random", "unknown"}

NoParams == [empty |-> TRUE, dict |-> <<>>]
Params(d) == [empty |-> FALSE, dict |-> d]

Has(p, k) == ~p.empty /\ k \in DOMAIN p.dict

MeshParams ==
    {NoParams, Params(<<>>), Params([n |-> 1]), Params([m |-> 1])}
    \cup {Params([n |-> a, m |-> b]) : a \in 1..MaxMeshDim, b \in 1..MaxMeshDim}

TreeParams ==
    {NoParams, Params(<<>>), Params([r |-> 1]), Params([h |-> 1])}
    \cup {Params([r |-> a, h |-> b]) : a \in 1..(MaxSwitches - 1), b \in 1..MaxTreeH}

RingParams ==
    {NoParams, Params(<<>>)}
    \cup {Params([cwsg_num_rings |-> a]) : a \in 1..MaxRings}

BinomialParams == {NoParams, Params(<<>>), Params([p |-> 1])}

GeometricParams == {NoParams, Params(<<>>), Params([r |-> 1])}

ParamsOf(t) ==
    CASE t = "mesh_graph" -> MeshParams
      [] t = "unknown_graph" -> MeshParams
      [] t = "tree_graph" -> TreeParams
      [] t = "industrial_ring_graph" -> RingParams
      [] t = "binomial_graph" -> BinomialParams
      [] OTHER -> GeometricParams

----------------------------------------------------------------------------
(* Base graphs.  A generator either terminates the run (sys.exit(1)) or    *)
(* returns a graph over the nodes 0..n-1 (the position of a node in        *)
(* base_graph.nodes()); "edges" lists the edges in the order they were     *)
(* added.                                                                  *)

Fatal == [ok |-> FALSE, n |-> 0, edges |-> <<>>]
BaseGraph(n, e) == [ok |-> TRUE, n |-> n, edges |-> e]

Other(e, k) == IF e[1] = k THEN e[2] ELSE e[1]

\* Graph.edges() of networkx: node by node in insertion order, for each node
\* its neighbours in the order the edges were added, skipping the nodes
\* already visited.
AdjEdges(ins, k) ==
    LET inc == SelectSeq(ins, LAMBDA e : (e[1] = k \/ e[2] = k) /\ Other(e, k) > k)
    IN  [i \in 1..Len(inc) |-> <<k, Other(inc[i], k)>>]

RECURSIVE EdgesFrom(_, _, _)
EdgesFrom(k, n, ins) ==
    IF k >= n THEN <<>> ELSE AdjEdges(ins, k) \o EdgesFrom(k + 1, n, ins)

EdgesView(g) == EdgesFrom(0, g.n, g.edges)

\* nx.grid_2d_graph(n, m): node (i, j) is number i*m + j; the edges between
\* rows are added first, then the edges inside the rows.
GridEdges(n, m) ==
    LET vert == [k \in 1..((n - 1) * m) |->
                    <<((k - 1) \div m + 1) * m + ((k - 1) % m),
                      ((k - 1) \div m) * m + ((k - 1) % m)>>]
        horiz == [k \in 1..(n * (m - 1)) |->
                    <<((k - 1) \div (m - 1)) * m + ((k - 1) % (m - 1)) + 1,
                      ((k - 1) \div (m - 1)) * m + ((k - 1) % (m - 1))>>]
    IN  vert \o horiz

\* a faulty size check: a grid larger than the switch count is accepted
GenerateMeshGraphLargerAccepted(c) ==
    IF c.topology_params.empty THEN {Fatal}
    ELSE IF ~Has(c.topology_params, "n") \/ ~Has(c.topology_params, "m") THEN {Fatal}
    ELSE LET n == c.topology_params.dict.n
             m == c.topology_params.dict.m
             total_positions == n * m
         IN  IF total_positions < c.num_switches THEN {Fatal}
             ELSE {BaseGraph(n * m, GridEdges(n, m))}

GenerateMeshGraph(c) ==
    IF c.topology_params.empty THEN {Fatal}
    ELSE IF ~Has(c.topology_params, "n") \/ ~Has(c.topology_params, "m") THEN {Fatal}
    ELSE LET n == c.topology_params.dict.n
             m == c.topology_params.dict.m
             total_positions == n * m
         IN  IF total_positions < c.num_switches THEN {Fatal}
             ELSE IF total_positions > c.num_switches THEN {Fatal}
             ELSE {BaseGraph(n * m, GridEdges(n, m))}

\* every sub-list of s
RECURSIVE SubLists(_)
SubLists(s) ==
    IF s = <<>> THEN {<<>>}
    ELSE LET rest == SubLists(Tail(s))
         IN  rest \cup {<<Head(s)>> \o t : t \in rest}

\* itertools.combinations(range(n), 2)
RECURSIVE PairsFrom(_, _, _)
PairsFrom(i, j, n) ==
    IF i >= n - 1 THEN <<>>
    ELSE IF j >= n THEN PairsFrom(i + 1, i + 2, n)
    ELSE <<<<i, j>>>> \o PairsFrom(i, j + 1, n)

AllPairs(n) == PairsFrom(0, 1, n)

\* nx.gnp_random_graph(num_switches, p): any edge set
GenerateBinomialGraph(c) ==
    IF c.topology_params.empty THEN {Fatal}
    ELSE IF ~Has(c.topology_params, "p") THEN {Fatal}
    ELSE {BaseGraph(c.num_switches, e) : e \in SubLists(AllPairs(c.num_switches))}

\* nx.random_geometric_graph(num_switches, r): any edge set
GenerateRandomGeometricGraph(c) ==
    IF c.topology_params.empty THEN {Fatal}
    ELSE IF ~Has(c.topology_params, "r") THEN {Fatal}
    ELSE {BaseGraph(c.num_switches, e) : e \in SubLists(AllPairs(c.num_switches))}

\* a faulty ring: the closing edge is left out
RingEdgesOpen(ring_start, ring_end) ==
    [k \in 1..(ring_end - ring_start) |-> <<ring_start + k - 1, ring_start + k>>]

\* the edges of one ring
RingEdges(ring_start, ring_end) ==
    [k \in 1..(ring_end - ring_start) |-> <<ring_start + k - 1, ring_start + k>>]
    \o (IF ring_end > ring_start THEN <<<<ring_end, ring_start>>>> ELSE <<>>)

RECURSIVE AllRingEdges(_, _, _, _)
AllRingEdges(ring, num_rings, nodes_per_ring, num_switches) ==
    IF ring >= num_rings THEN <<>>
    ELSE RingEdges(ring * nodes_per_ring,
                   Min((ring + 1) * nodes_per_ring - 1, num_switches - 1))
         \o AllRingEdges(ring + 1, num_rings, nodes_per_ring, num_switches)

\* the lists of edges the ring interconnection loop can add
RECURSIVE InterRingEdges(_, _, _, _)
InterRingEdges(ring, num_rings, nodes_per_ring, num_switches) ==
    IF ring >= num_rings - 1 THEN {<<>>}
    ELSE LET rest == InterRingEdges(ring + 1, num_rings, nodes_per_ring, num_switches)
             source_candidates == ring * nodes_per_ring .. (ring + 1) * nodes_per_ring - 1
             target_candidates == (ring + 1) * nodes_per_ring .. (ring + 2) * nodes_per_ring - 1
         IN  UNION {
               {(IF s < num_switches /\ t < num_switches THEN <<<<s, t>>>> ELSE <<>>) \o r
                  : r \in rest}
               : s \in source_candidates, t \in target_candidates}

GenerateIndustrialRing(c) ==
    IF c.topology_params.empty THEN {Fatal}
    ELSE IF ~Has(c.topology_params, "cwsg_num_rings") THEN {Fatal}
    ELSE LET num_rings == c.topology_params.dict.cwsg_num_rings
             nodes_per_ring == Max(3, c.num_switches \div num_rings)
             total_nodes == nodes_per_ring * num_rings
         IN  IF total_nodes < c.num_switches THEN {Fatal}
             ELSE IF total_nodes > c.num_switches THEN {Fatal}
             ELSE {BaseGraph(c.num_switches,
                             AllRingEdges(0, num_rings, nodes_per_ring, c.num_switches) \o x)
                     : x \in InterRingEdges(0, num_rings, nodes_per_ring, c.num_switches)}

\* sum(r**i for i in range(h + 1))
RECURSIVE TreeSize(_, _)
TreeSize(r, h) == IF h < 0 THEN 0 ELSE Pow(r, h) + TreeSize(r, h - 1)

\* nx.balanced_tree(r, h): node v > 0 hangs under node (v - 1) // r
TreeEdges(r, n) == [v \in 1..(n - 1) |-> <<(v - 1) \div r, v>>]

GenerateTreeGraph(c) ==
    IF c.topology_params.empty THEN {Fatal}
    ELSE IF ~Has(c.topology_params, "r") \/ ~Has(c.topology_params, "h") THEN {Fatal}
    ELSE LET r == c.topology_params.dict.r
             h == c.topology_params.dict.h
             total_nodes == TreeSize(r, h)
         IN  IF total_nodes < c.num_switches THEN {Fatal}
             ELSE IF total_nodes > c.num_switches THEN {Fatal}
             ELSE {BaseGraph(total_nodes, TreeEdges(r, total_nodes))}

KnownType(t) == t \in {"mesh_graph", "binomial_graph", "industrial_ring_graph",
                       "random_geometric_graph", "tree_graph"}

\* the dispatch at the head of _generate_domain_graph
GenerateBaseGraph(c) ==
    CASE c.topology_type = "mesh_graph" -> GenerateMeshGraph(c)
      [] c.topology_type = "binomial_graph" -> GenerateBinomialGraph(c)
      [] c.topology_type = "industrial_ring_graph" -> GenerateIndustrialRing(c)
      [] c.topology_type = "random_geometric_graph" -> GenerateRandomGeometricGraph(c)
      [] c.topology_type = "tree_graph" -> GenerateTreeGraph(c)
      [] OTHER -> GenerateMeshGraph(c)

----------------------------------------------------------------------------
(* The runs the model explores *)

\* the number of outcomes of _connect_domains_random over N domains:
\* (N-1)! trees, each with the ordered samples of the extra pairs
RECURSIVE Arrangements(_, _)
Arrangements(n, k) == IF k <= 0 THEN 1 ELSE n * Arrangements(n - 1, k - 1)

RandomPlanCount(N) ==
    LET all == (N * (N - 1)) \div 2
        extra == Max(0, (N * (N - 1)) \div 4 - (N - 1))
    IN  Arrangements(N - 1, N - 1) * Arrangements(all - (N - 1), Min(extra, all - (N - 1)))

IsRandomType(t) == t \in {"binomial_graph", "random_geometric_graph"}

\* The sizes the model explores (see the bounds above).
SizeOK(c) ==
    /\ IsRandomType(c.topology_type) =>
          c.num_domains * (c.num_switches + c.num_end_systems) <= MaxRandomNodes
    /\ c.num_domains = 1 =>
          Cardinality(GenerateBaseGraph(c)) * Pow(c.num_switches, c.num_end_systems)
             <= MaxPlacements
    /\ c.num_domains > 1 =>
          c.num_domains * (c.num_switches + c.num_end_systems) <= MaxMultiDomainNodes
    /\ c.domain_connection_type = "random" =>
          RandomPlanCount(c.num_domains) <= MaxRandomPlans
    \* a single domain is never connected: one representative is enough
    /\ c.num_domains = 1 =>
          c.domain_connection_type = "none" /\ c.connections_per_domain_pair = 1
    /\ c.domain_connection_type = "none" => c.connections_per_domain_pair = 1

Configs ==
    {c \in UNION {[num_domains : 1..MaxDomains,
                   topology_type : {t},
                   topology_params : ParamsOf(t),
                   num_switches : 0..MaxSwitches,
                   num_end_systems : 0..MaxEndSystems,
                   domain_connection_type : ConnectionTypes,
                   connections_per_domain_pair : 1..MaxConnectionsPerPair]
                  : t \in TopologyTypes} : SizeOK(c)}

----------------------------------------------------------------------------
(* Port allocation *)

PortPriorities(connection_type) ==
    CASE connection_type = "domain_connection" -> <<0, 1>>
      [] connection_type = "switch_to_switch" -> <<2, 3, 4, 5>>
      [] connection_type = "switch_to_end_system" -> <<6, 7, 0, 1, 2, 3, 4, 5>>
      [] OTHER -> RangeSeq(0, PortCount)

\* the used-port set _get_next_port works on (it creates a missing entry)
UsedPortsOf(up, node_id) == IF node_id \in DOMAIN up THEN up[node_id] ELSE {}

EnsureEntry(up, node_id) ==
    [id \in DOMAIN up \cup {node_id} |-> UsedPortsOf(up, id)]

\* a faulty scan: the first port of the list, used or not
FirstListed(ports, used) ==
    IF ports = <<>> THEN <<>> ELSE <<Head(ports)>>

\* for port in ports: if port not in used: return port
RECURSIVE FirstFree(_, _)
FirstFree(ports, used) ==
    IF ports = <<>> THEN <<>>
    ELSE IF Head(ports) \notin used THEN <<Head(ports)>>
    ELSE FirstFree(Tail(ports), used)

\* a faulty allocator: no fallback to the other ports, the run ends as soon
\* as the class's own list is used up
GetNextPortNoFallback(up, node_id, connection_type) ==
    LET used == UsedPortsOf(up, node_id)
        prio == FirstFree(PortPriorities(connection_type), used)
    IN  IF prio # <<>> THEN [exit |-> FALSE, warned |-> FALSE, port |-> prio[1]]
        ELSE [exit |-> TRUE, warned |-> FALSE, port |-> PortCount]

\* _get_next_port: the port returned, whether the fallback warning was
\* logged, or exit (sys.exit(1): every port of the switch is used)
GetNextPort(up, node_id, connection_type) ==
    LET used == UsedPortsOf(up, node_id)
        prio == FirstFree(PortPriorities(connection_type), used)
        any == FirstFree(RangeSeq(0, PortCount), used)
    IN  IF prio # <<>> THEN [exit |-> FALSE, warned |-> FALSE, port |-> prio[1]]
        ELSE IF any # <<>> THEN [exit |-> FALSE, warned |-> TRUE, port |-> any[1]]
        ELSE [exit |-> TRUE, warned |-> FALSE, port |-> PortCount]

----------------------------------------------------------------------------
(* Graphs of switches and end systems (nx.Graph): the nodes and the edges  *)
(* in insertion order; an edge keeps the attributes set on it.             *)

EmptyGraph == [nodes |-> <<>>, edges |-> <<>>]

NodeIds(g) == [i \in 1..Len(g.nodes) |-> g.nodes[i].id]

\* [n for n in G.nodes() if G.nodes[n].get("type") == "switch"]
SwitchesOf(g) ==
    LET sw == SelectSeq(g.nodes, LAMBDA nd : nd.type = "switch")
    IN  [i \in 1..Len(sw) |-> sw[i].id]

SameEdge(e, a, b) == (e.a = a /\ e.b = b) \/ (e.a = b /\ e.b = a)

\* G.add_edge(a, b) followed by the three attribute assignments
AddEdge(g, a, b, source_port, dest_port, connection_type) ==
    LET attrs == [a |-> a, b |-> b, source_port |-> source_port,
                  dest_port |-> dest_port, connection_type |-> connection_type]
    IN  IF \E i \in 1..Len(g.edges) : SameEdge(g.edges[i], a, b)
        THEN [g EXCEPT !.edges =
                 [i \in 1..Len(g.edges) |->
                     IF SameEdge(g.edges[i], a, b)
                     THEN [attrs EXCEPT !.a = g.edges[i].a, !.b = g.edges[i].b]
                     ELSE g.edges[i]]]
        ELSE [g EXCEPT !.edges = Append(g.edges, attrs)]

\* graph.edges(data=True): node by node in insertion order, for each node its
\* edges in the order they were added, skipping the neighbours already
\* visited; so (u, v, data) has u the endpoint met first in node order
RECURSIVE EdgesByNode(_, _, _)
EdgesByNode(oriented, k, n) ==
    IF k > n THEN <<>>
    ELSE LET mine == SelectSeq(oriented, LAMBDA e : e.at = k)
         IN  [i \in 1..Len(mine) |->
                 [u |-> mine[i].u, v |-> mine[i].v, data |-> mine[i].data]]
             \o EdgesByNode(oriented, k + 1, n)

\* a faulty enumeration: every edge is reported from its other endpoint
GraphEdgesViewOpposite(g) ==
    LET ids == NodeIds(g)
        pos == [id \in Range(ids) |-> IndexOf(ids, id)]
        oriented == [i \in 1..Len(g.edges) |->
                       LET e == g.edges[i]
                       IN  IF pos[e.a] <= pos[e.b]
                           THEN [u |-> e.b, v |-> e.a, data |-> e, at |-> pos[e.a]]
                           ELSE [u |-> e.a, v |-> e.b, data |-> e, at |-> pos[e.b]]]
    IN  EdgesByNode(oriented, 1, Len(ids))

GraphEdgesView(g) ==
    LET ids == NodeIds(g)
        pos == [id \in Range(ids) |-> IndexOf(ids, id)]
        oriented == [i \in 1..Len(g.edges) |->
                       LET e == g.edges[i]
                       IN  IF pos[e.a] <= pos[e.b]
                           THEN [u |-> e.a, v |-> e.b, data |-> e, at |-> pos[e.a]]
                           ELSE [u |-> e.b, v |-> e.a, data |-> e, at |-> pos[e.b]]]
    IN  EdgesByNode(oriented, 1, Len(ids))

\* _get_node_domain
RECURSIVE NodeDomainFrom(_, _, _)
NodeDomainFrom(graphs, i, node_id) ==
    IF i > Len(graphs) THEN 0
    ELSE IF node_id \in Range(NodeIds(graphs[i])) THEN i - 1
    ELSE NodeDomainFrom(graphs, i + 1, node_id)

GetNodeDomain(graphs, node_id) == NodeDomainFrom(graphs, 1, node_id)

----------------------------------------------------------------------------
(* Link properties.  random.uniform is a function of the generator state:  *)
(* rng is that state, NextRandom the step one draw makes.                  *)

Seeds == {0}

NextRandom(r) == (5 * r + 3) % 16

DelayRange(connection_type) ==
    CASE connection_type = "domain_connection" -> <<50, 100>>
      [] connection_type = "switch_to_switch" -> <<10, 50>>
      [] OTHER -> <<1, 10>>

Bandwidth(connection_type) ==
    CASE connection_type = "domain_connection" -> 10000
      [] connection_type = "switch_to_switch" -> 1000
      [] OTHER -> 100

\* _generate_link_properties, given the generator state of the draw
GenerateLinkProperties(connection_type, r) ==
    LET range == DelayRange(connection_type)
    IN  [bandwidth_mbps |-> Bandwidth(connection_type),
         delay |-> range[1] + (r % (range[2] - range[1] + 1))]

----------------------------------------------------------------------------
(* generate(): the domain graphs *)

\* a logical connection between a and b, on port pa of a and port pb of b
Connection(a, b, pa, pb) == [a |-> a, b |-> b, pa |-> pa, pb |-> pb]

\* Python's None, where a number is expected
None == -1

EmptyRoutingGraph == [nodes |-> <<>>, edges |-> <<>>]

EmptyFindPathsCall == [state |-> "idle", source |-> SwitchId(0), dest |-> SwitchId(0),
                       num_paths |-> 0, graph_before |-> EmptyRoutingGraph,
                       paths |-> <<>>, warnings |-> 0, again |-> <<>>]

EmptyDelayCall == [state |-> "idle", path |-> <<>>, traffic_type |-> "",
                   deadline |-> None, np_random |-> 0, result |-> 0]

EmptyRoute == [flow_id |-> None, paths |-> <<>>, min_e2e_delay |-> 0]

\* no RouteGenerator exists
EmptyFirstRun == [done |-> FALSE, pc |-> "", exit_at |-> "", routes |-> <<>>,
                  warnings |-> 0]

RouteIdle ==
    /\ streams = <<>>
    /\ traffic_types = <<>>
    /\ consider_link_utilization = FALSE
    /\ graph = EmptyRoutingGraph
    /\ link_utilization = <<>>
    /\ routes = <<>>
    /\ stream_index = 0
    /\ destination_index = 0
    /\ all_paths = <<>>
    /\ route = EmptyRoute
    /\ np_random = 0
    /\ np_seed = 0
    /\ find_paths_call = EmptyFindPathsCall
    /\ delay_call = EmptyDelayCall
    /\ found_paths = <<>>
    /\ first_run = EmptyFirstRun

EmptyCall == [active |-> FALSE, domain1 |-> 0, domain2 |-> 0,
              switches1 |-> <<>>, switches2 |-> <<>>, left |-> 0,
              n1 |-> 0, n2 |-> 0, links_before |-> 0, ports_before |-> <<>>,
              skipped |-> FALSE]

EmptyGnp == [state |-> "idle", used_ports |-> <<>>, node_id |-> SwitchId(0),
             connection_type |-> "default",
             result |-> [exit |-> FALSE, warned |-> FALSE, port |-> 0]]

Init ==
    /\ cfg \in Configs
    /\ pc = "start"
    /\ domain_id = 0
    /\ switch_counter = 0
    /\ node_counter = 0
    /\ link_counter = 0
    /\ used_ports = <<>>
    /\ domain_graphs = <<>>
    /\ G = EmptyGraph
    /\ base_edges = <<>>
    /\ remaining_end_systems = 0
    /\ switch_end_system_counts = <<>>
    /\ topology = [switches |-> <<>>, end_systems |-> <<>>, links |-> <<>>]
    /\ rng \in Seeds
    /\ pending = <<>>
    /\ handed = <<>>
    /\ call = EmptyCall
    /\ warnings = 0
    /\ exit_at = ""
    /\ conns = <<>>
    /\ gnp = EmptyGnp
    /\ RouteIdle

\* sys.exit(1), or an error nobody catches
Terminate(where) ==
    /\ pc' = "exit"
    /\ exit_at' = where

\* generate(), up to the domain loop
Generate ==
    /\ pc = "start"
    /\ topology' = [switches |-> <<>>, end_systems |-> <<>>, links |-> <<>>]
    /\ domain_graphs' = <<>>
    /\ domain_id' = 0
    /\ pc' = IF cfg.num_domains > 0 THEN "domain" ELSE "links"
    /\ UNCHANGED conns
    /\ UNCHANGED <<cfg, switch_counter, node_counter, link_counter, used_ports, G,
                   base_edges, remaining_end_systems, switch_end_system_counts,
                   rng, pending, handed, call, warnings, exit_at, gnp, route_vars>>

\* the switch nodes _generate_domain_graph adds for a base graph of n nodes
NewSwitches(n, first, domain) ==
    [i \in 1..n |-> [id |-> SwitchId(first + i - 1), type |-> "switch",
                     ports |-> PortCount, domain |-> domain]]

\* _generate_domain_graph, from its head to the list of switches
GenerateDomainGraph ==
    /\ pc = "domain"
    /\ \E base \in GenerateBaseGraph(cfg) :
         IF ~base.ok
         THEN /\ Terminate("base_graph")
              /\ UNCHANGED <<switch_counter, used_ports, G, base_edges, warnings>>
         ELSE LET nodes == NewSwitches(base.n, switch_counter, domain_id)
                  ids == {nodes[i].id : i \in 1..base.n}
              IN  /\ G' = [nodes |-> nodes, edges |-> <<>>]
                  /\ switch_counter' = switch_counter + base.n
                  /\ used_ports' = [id \in DOMAIN used_ports \cup ids |->
                                       IF id \in ids THEN {} ELSE used_ports[id]]
                  /\ base_edges' = EdgesView(base)
                  /\ warnings' = IF KnownType(cfg.topology_type)
                                 THEN warnings ELSE warnings + 1
                  /\ pc' = "s2s"
                  /\ UNCHANGED exit_at
    /\ UNCHANGED conns
    /\ UNCHANGED <<cfg, domain_id, node_counter, link_counter, domain_graphs,
                   remaining_end_systems, switch_end_system_counts, topology,
                   rng, pending, handed, call, gnp, route_vars>>

\* one pass of the loop over base_graph.edges()
ConnectSwitches ==
    /\ pc = "s2s"
    /\ base_edges # <<>>
    /\ LET switches == SwitchesOf(G)
           u_idx == Head(base_edges)[1]
           v_idx == Head(base_edges)[2]
       IN  IF u_idx < Len(switches) /\ v_idx < Len(switches)
           THEN LET source == switches[u_idx + 1]
                    dest == switches[v_idx + 1]
                    sp == GetNextPort(used_ports, source, "switch_to_switch")
                    dp == GetNextPort(used_ports, dest, "switch_to_switch")
                IN  IF sp.exit \/ dp.exit
                    THEN /\ Terminate("switch_to_switch")
                         /\ G' = AddEdge(G, source, dest, 0, 0, "default")
                         /\ UNCHANGED <<used_ports, base_edges, warnings, conns>>
                    ELSE /\ G' = AddEdge(G, source, dest, sp.port, dp.port,
                                         "switch_to_switch")
                         /\ used_ports' =
                               [used_ports EXCEPT
                                  ![source] = @ \cup {sp.port},
                                  ![dest] = IF dest = source
                                            THEN @ \cup {sp.port, dp.port}
                                            ELSE @ \cup {dp.port}]
                         /\ base_edges' = Tail(base_edges)
                         /\ warnings' = warnings + (IF sp.warned THEN 1 ELSE 0)
                                                 + (IF dp.warned THEN 1 ELSE 0)
                         /\ conns' = Append(conns, Connection(source, dest, sp.port,
                                                              dp.port))
                         /\ UNCHANGED <<pc, exit_at>>
           ELSE /\ base_edges' = Tail(base_edges)
                /\ UNCHANGED <<G, used_ports, warnings, pc, exit_at, conns>>
    /\ UNCHANGED <<cfg, domain_id, switch_counter, node_counter, link_counter,
                   domain_graphs, remaining_end_systems, switch_end_system_counts,
                   topology, rng, pending, handed, call, gnp, route_vars>>

\* the set-up of the end-system loop
BeginEndSystems ==
    /\ pc = "s2s"
    /\ base_edges = <<>>
    /\ remaining_end_systems' = cfg.num_end_systems
    /\ switch_end_system_counts' = [s \in Range(SwitchesOf(G)) |-> 0]
    /\ pc' = "es"
    /\ UNCHANGED conns
    /\ UNCHANGED <<cfg, domain_id, switch_counter, node_counter, link_counter,
                   used_ports, domain_graphs, G, base_edges, topology, rng,
                   pending, handed, call, warnings, exit_at, gnp, route_vars>>

\* a faulty threshold: a switch with 4 end systems is still eligible
AvailableSwitchesOneMore ==
    SelectSeq(SwitchesOf(G), LAMBDA s : switch_end_system_counts[s] <= MaxEsPerSwitch)

\* a faulty threshold: a switch with 3 end systems is no longer eligible
AvailableSwitchesOneFewer ==
    SelectSeq(SwitchesOf(G),
              LAMBDA s : switch_end_system_counts[s] < MaxEsPerSwitch - 1)

\* [s for s in switches if switch_end_system_counts[s] < 4]
AvailableSwitches ==
    SelectSeq(SwitchesOf(G), LAMBDA s : switch_end_system_counts[s] < MaxEsPerSwitch)

\* one pass of the while loop that attaches an end system
AttachEndSystem ==
    /\ pc = "es"
    /\ remaining_end_systems > 0
    /\ AvailableSwitches # <<>>
    /\ \E selected_switch \in Range(AvailableSwitches) :
         LET node_id == EndSystemId(node_counter)
             sp == GetNextPort(used_ports, selected_switch, "switch_to_end_system")
             withNode == [G EXCEPT !.nodes =
                             Append(@, [id |-> node_id, type |-> "end_system",
                                        domain |-> domain_id])]
         IN  /\ node_counter' = node_counter + 1
             /\ IF sp.exit
                THEN /\ Terminate("end_system")
                     /\ G' = withNode
                     /\ UNCHANGED <<switch_end_system_counts, remaining_end_systems,
                                    used_ports, warnings, conns>>
                ELSE /\ G' = AddEdge(withNode, selected_switch, node_id, sp.port, 0,
                                     "switch_to_end_system")
                     /\ switch_end_system_counts' =
                           [switch_end_system_counts EXCEPT ![selected_switch] = @ + 1]
                     /\ remaining_end_systems' = remaining_end_systems - 1
                     /\ used_ports' = [used_ports EXCEPT
                                         ![selected_switch] = @ \cup {sp.port}]
                     /\ warnings' = warnings + (IF sp.warned THEN 1 ELSE 0)
                     /\ conns' = Append(conns, Connection(selected_switch, node_id,
                                                          sp.port, 0))
                     /\ UNCHANGED <<pc, exit_at>>
    /\ UNCHANGED <<cfg, domain_id, switch_counter, link_counter, domain_graphs,
                   base_edges, topology, rng, pending, handed, call, gnp, route_vars>>

\* the topology entry of a node: its data without the 'type' field
NodeEntry(nd) ==
    IF nd.type = "switch"
    THEN [id |-> nd.id, ports |-> nd.ports, domain |-> nd.domain]
    ELSE [id |-> nd.id, domain |-> nd.domain]

\* a faulty listing: the end systems are left out of the topology
SwitchEntriesOnly(g, type) ==
    LET sel == SelectSeq(g.nodes, LAMBDA nd : nd.type = type /\ type = "switch")
    IN  [i \in 1..Len(sel) |-> NodeEntry(sel[i])]

EntriesOfType(g, type) ==
    LET sel == SelectSeq(g.nodes, LAMBDA nd : nd.type = type)
    IN  [i \in 1..Len(sel) |-> NodeEntry(sel[i])]

\* the end of the while loop, return G, and the rest of the domain loop's body
FinishDomainGraph ==
    /\ pc = "es"
    /\ remaining_end_systems = 0 \/ AvailableSwitches = <<>>
    /\ warnings' = IF remaining_end_systems > 0 THEN warnings + 1 ELSE warnings
    /\ domain_graphs' = Append(domain_graphs, G)
    /\ topology' = [topology EXCEPT
                      !.switches = @ \o EntriesOfType(G, "switch"),
                      !.end_systems = @ \o EntriesOfType(G, "end_system")]
    /\ domain_id' = domain_id + 1
    /\ pc' = IF domain_id + 1 < cfg.num_domains THEN "domain" ELSE "links"
    /\ UNCHANGED conns
    /\ UNCHANGED <<cfg, switch_counter, node_counter, link_counter, used_ports, G,
                   base_edges, remaining_end_systems, switch_end_system_counts,
                   rng, pending, handed, call, exit_at, gnp, route_vars>>

----------------------------------------------------------------------------
(* generate(): the Link records of the domain graphs *)

\* a faulty reverse record: the ports are not swapped
LinkPairPortsKept(graphs, e, id, r) ==
    LET props == GenerateLinkProperties(e.data.connection_type, r)
    IN  << [id |-> id, source |-> e.u, destination |-> e.v,
            sourcePort |-> e.data.source_port,
            destinationPort |-> e.data.dest_port,
            domain |-> GetNodeDomain(graphs, e.u),
            bandwidth_mbps |-> props.bandwidth_mbps, delay |-> props.delay],
           [id |-> id + 1, source |-> e.v, destination |-> e.u,
            sourcePort |-> e.data.source_port,
            destinationPort |-> e.data.dest_port,
            domain |-> GetNodeDomain(graphs, e.v),
            bandwidth_mbps |-> props.bandwidth_mbps, delay |-> props.delay] >>

\* the forward and the reverse Link record of one edge (u, v, data)
LinkPair(graphs, e, id, r) ==
    LET props == GenerateLinkProperties(e.data.connection_type, r)
    IN  << [id |-> id, source |-> e.u, destination |-> e.v,
            sourcePort |-> e.data.source_port,
            destinationPort |-> e.data.dest_port,
            domain |-> GetNodeDomain(graphs, e.u),
            bandwidth_mbps |-> props.bandwidth_mbps, delay |-> props.delay],
           [id |-> id + 1, source |-> e.v, destination |-> e.u,
            sourcePort |-> e.data.dest_port,
            destinationPort |-> e.data.source_port,
            domain |-> GetNodeDomain(graphs, e.v),
            bandwidth_mbps |-> props.bandwidth_mbps, delay |-> props.delay] >>

RECURSIVE AllGraphEdges(_, _)
AllGraphEdges(graphs, i) ==
    IF i > Len(graphs) THEN <<>>
    ELSE GraphEdgesView(graphs[i]) \o AllGraphEdges(graphs, i + 1)

RECURSIVE LinksOf(_, _, _, _)
LinksOf(graphs, edges, id, r) ==
    IF edges = <<>> THEN [links |-> <<>>, link_counter |-> id, rng |-> r]
    ELSE LET rest == LinksOf(graphs, Tail(edges), id + 2, NextRandom(r))
         IN  [rest EXCEPT !.links = LinkPair(graphs, Head(edges), id, r) \o @]

\* generate(): the loop over the domain graphs' edges
AssembleLinks ==
    /\ pc = "links"
    /\ LET built == LinksOf(domain_graphs, AllGraphEdges(domain_graphs, 1), 0, rng)
       IN  /\ topology' = [topology EXCEPT !.links = @ \o built.links]
           /\ link_counter' = built.link_counter
           /\ rng' = built.rng
    /\ pc' = "connect"
    /\ UNCHANGED conns
    /\ UNCHANGED <<cfg, domain_id, switch_counter, node_counter, used_ports,
                   domain_graphs, G, base_edges, remaining_end_systems,
                   switch_end_system_counts, pending, handed, call, warnings,
                   exit_at, gnp, route_vars>>

----------------------------------------------------------------------------
(* Connecting the domains *)

\* int(x ** 0.5)
RECURSIVE SqrtFrom(_, _)
SqrtFrom(x, k) == IF (k + 1) * (k + 1) > x THEN k ELSE SqrtFrom(x, k + 1)
IntSqrt(x) == SqrtFrom(x, 0)

\* _connect_domains_line: the pairs it hands over, in order
ConnectDomainsLine(N) == [i \in 1..(N - 1) |-> <<i - 1, i>>]

\* a faulty neighbour test: the last domain of a row is joined to the first
\* of the next row
SquarePairsOfWrapping(i, n, m, N) ==
    LET row == i \div m
    IN  (IF i + 1 < N THEN <<<<i, i + 1>>>> ELSE <<>>)
        \o (IF row < n - 1 /\ i + m < N THEN <<<<i, i + m>>>> ELSE <<>>)

\* _connect_domains_square: the pairs domain i hands over
SquarePairsOf(i, n, m, N) ==
    LET row == i \div m
        col == i % m
    IN  (IF col < m - 1 /\ i + 1 < N THEN <<<<i, i + 1>>>> ELSE <<>>)
        \o (IF row < n - 1 /\ i + m < N THEN <<<<i, i + m>>>> ELSE <<>>)

RECURSIVE SquarePairsFrom(_, _, _, _)
SquarePairsFrom(i, n, m, N) ==
    IF i >= N THEN <<>>
    ELSE SquarePairsOf(i, n, m, N) \o SquarePairsFrom(i + 1, n, m, N)

\* a faulty grid width: N / n rounded down
ConnectDomainsSquareNarrow(N) ==
    LET n == IntSqrt(N)
        m == N \div n
    IN  SquarePairsFrom(0, n, m, N)

ConnectDomainsSquare(N) ==
    LET n == IntSqrt(N)
        m == (N + n - 1) \div n
    IN  SquarePairsFrom(0, n, m, N)

\* nx.random_powerlaw_tree(N): a tree over 0..N-1 in which every node v > 0
\* has one neighbour below it; its edges as domain_tree.edges() lists them
RandomTrees(N) ==
    LET parents == {f \in [1..(N - 1) -> 0..(N - 2)] : \A v \in 1..(N - 1) : f[v] < v}
    IN  {EdgesView(BaseGraph(N, [v \in 1..(N - 1) |-> <<f[v], v>>])) : f \in parents}

\* random.sample(population, k): every list of k different members
RECURSIVE Samples(_, _)
Samples(population, k) ==
    IF k <= 0 THEN {<<>>}
    ELSE UNION {{<<x>> \o rest : rest \in Samples(population \ {x}, k - 1)}
                  : x \in population}

\* _connect_domains_random: the lists of pairs it can hand over
ConnectDomainsRandom(N) ==
    LET num_extra_connections == Max(0, (N * (N - 1)) \div 4 - (N - 1))
        all_possible_connections == Range(AllPairs(N))
    IN  UNION {
          LET existing_connections == Range(tree)
              candidates == all_possible_connections \ existing_connections
              k == Min(num_extra_connections,
                       Cardinality(all_possible_connections) - Len(tree))
          IN  {tree \o extra : extra \in Samples(candidates, k)}
          : tree \in RandomTrees(N)}

\* _connect_domains: what the strategy hands to _connect_domain_pair;
\* ok = FALSE when random_powerlaw_tree raises
ConnectDomainsPlans(type, N) ==
    CASE type = "line" -> {[ok |-> TRUE, pairs |-> ConnectDomainsLine(N)]}
      [] type = "square" -> {[ok |-> TRUE, pairs |-> ConnectDomainsSquare(N)]}
      [] type = "random" ->
            {[ok |-> TRUE, pairs |-> p] : p \in ConnectDomainsRandom(N)}
            \cup {[ok |-> FALSE, pairs |-> <<>>]}
      [] OTHER -> {[ok |-> TRUE, pairs |-> ConnectDomainsLine(N)]}

\* generate(): "if self.num_domains > 1 and self.domain_connection_type",
\* and _connect_domains
ConnectDomains ==
    /\ pc = "connect"
    /\ IF cfg.num_domains > 1 /\ cfg.domain_connection_type # "none"
       THEN \E plan \in ConnectDomainsPlans(cfg.domain_connection_type,
                                            Len(domain_graphs)) :
               IF plan.ok
               THEN /\ pending' = plan.pairs
                    /\ warnings' = IF cfg.domain_connection_type
                                        \in {"line", "square", "random"}
                                   THEN warnings ELSE warnings + 1
                    /\ pc' = "pairs"
                    /\ UNCHANGED exit_at
               ELSE /\ Terminate("random_tree")
                    /\ UNCHANGED <<pending, warnings>>
       ELSE /\ pending' = <<>>
            /\ pc' = "pairs"
            /\ UNCHANGED <<warnings, exit_at>>
    /\ UNCHANGED conns
    /\ UNCHANGED <<cfg, domain_id, switch_counter, node_counter, link_counter,
                   used_ports, domain_graphs, G, base_edges, remaining_end_systems,
                   switch_end_system_counts, topology, rng, handed, call, gnp, route_vars>>

\* "self.connections_per_domain_pair or 1"
ConnectionsPerPair(c) ==
    IF c.connections_per_domain_pair = 0 THEN 1 ELSE c.connections_per_domain_pair

\* _connect_domain_pair, from its head to the loop
ConnectDomainPair ==
    /\ pc = "pairs"
    /\ ~call.active
    /\ pending # <<>>
    /\ LET domain1 == Head(pending)[1]
           domain2 == Head(pending)[2]
           switches1 == SwitchesOf(domain_graphs[domain1 + 1])
           switches2 == SwitchesOf(domain_graphs[domain2 + 1])
           missing == switches1 = <<>> \/ switches2 = <<>>
       IN  /\ call' = [active |-> ~missing,
                       domain1 |-> domain1, domain2 |-> domain2,
                       switches1 |-> switches1, switches2 |-> switches2,
                       left |-> IF missing THEN 0
                                ELSE Min(ConnectionsPerPair(cfg),
                                         Min(Len(switches1), Len(switches2))),
                       n1 |-> Len(switches1), n2 |-> Len(switches2),
                       links_before |-> Len(topology.links),
                       ports_before |-> used_ports,
                       skipped |-> missing]
           /\ warnings' = IF missing THEN warnings + 1 ELSE warnings
    /\ pending' = Tail(pending)
    /\ handed' = Append(handed, Head(pending))
    /\ UNCHANGED conns
    /\ UNCHANGED <<cfg, pc, domain_id, switch_counter, node_counter, link_counter,
                   used_ports, domain_graphs, G, base_edges, remaining_end_systems,
                   switch_end_system_counts, topology, rng, exit_at, gnp, route_vars>>

\* one pass of the loop of _connect_domain_pair
ConnectSwitchPair ==
    /\ pc = "pairs"
    /\ call.active
    /\ \E switch1 \in Range(call.switches1), switch2 \in Range(call.switches2) :
         LET port1 == GetNextPort(used_ports, switch1, "domain_connection")
             port2 == GetNextPort(used_ports, switch2, "domain_connection")
             props == GenerateLinkProperties("domain_connection", rng)
             forward == [id |-> link_counter, source |-> switch1,
                         sourcePort |-> port1.port, destination |-> switch2,
                         destinationPort |-> port2.port, domain |-> call.domain1,
                         connection_type |-> "domain_connection",
                         bandwidth_mbps |-> props.bandwidth_mbps,
                         delay |-> props.delay]
             reverse == [id |-> link_counter + 1, source |-> switch2,
                         sourcePort |-> port2.port, destination |-> switch1,
                         destinationPort |-> port1.port, domain |-> call.domain2,
                         connection_type |-> "domain_connection",
                         bandwidth_mbps |-> props.bandwidth_mbps,
                         delay |-> props.delay]
             rest1 == Remove(call.switches1, switch1)
             rest2 == Remove(call.switches2, switch2)
         IN  IF port1.exit \/ port2.exit
             THEN /\ Terminate("domain_connection")
                  /\ UNCHANGED <<link_counter, rng, topology, used_ports, call,
                                 warnings, conns>>
             ELSE /\ link_counter' = link_counter + 2
                  /\ rng' = NextRandom(rng)
                  /\ topology' = [topology EXCEPT
                                    !.links = @ \o <<forward, reverse>>]
                  /\ used_ports' =
                        [used_ports EXCEPT
                           ![switch1] = @ \cup {port1.port},
                           ![switch2] = IF switch2 = switch1
                                        THEN @ \cup {port1.port, port2.port}
                                        ELSE @ \cup {port2.port}]
                  /\ call' = [call EXCEPT
                                !.switches1 = rest1, !.switches2 = rest2,
                                !.left = @ - 1,
                                !.active = call.left - 1 > 0
                                           /\ rest1 # <<>> /\ rest2 # <<>>]
                  /\ warnings' = warnings + (IF port1.warned THEN 1 ELSE 0)
                                          + (IF port2.warned THEN 1 ELSE 0)
                  /\ conns' = Append(conns, Connection(switch1, switch2, port1.port,
                                                       port2.port))
                  /\ UNCHANGED <<pc, exit_at>>
    /\ UNCHANGED <<cfg, domain_id, switch_counter, node_counter, domain_graphs, G,
                   base_edges, remaining_end_systems, switch_end_system_counts,
                   pending, handed, gnp, route_vars>>

\* generate(): return topology
ReturnTopology ==
    /\ pc = "pairs"
    /\ ~call.active
    /\ pending = <<>>
    /\ pc' = "done"
    /\ UNCHANGED conns
    /\ UNCHANGED <<cfg, domain_id, switch_counter, node_counter, link_counter,
                   used_ports, domain_graphs, G, base_edges, remaining_end_systems,
                   switch_end_system_counts, topology, rng, pending, handed, call,
                   warnings, exit_at, gnp, route_vars>>

Next ==
    \/ Generate
    \/ GenerateDomainGraph
    \/ ConnectSwitches
    \/ BeginEndSystems
    \/ AttachEndSystem
    \/ FinishDomainGraph
    \/ AssembleLinks
    \/ ConnectDomains
    \/ ConnectDomainPair
    \/ ConnectSwitchPair
    \/ ReturnTopology

Spec == Init /\ [][Next]_vars

----------------------------------------------------------------------------
(* _get_next_port on its own: one call on any used-port table *)

PortClasses == {"domain_connection", "switch_to_switch", "switch_to_end_system",
                "default", "custom_type"}

UsedPortTables ==
    {<<>>} \cup {[id \in {SwitchId(0)} |-> used] : used \in SUBSET (0..(PortCount - 1))}

InitPort ==
    /\ cfg = [num_domains |-> 1, topology_type |-> "mesh_graph",
              topology_params |-> NoParams, num_switches |-> 0,
              num_end_systems |-> 0, domain_connection_type |-> "none",
              connections_per_domain_pair |-> 1]
    /\ pc = "idle"
    /\ domain_id = 0
    /\ switch_counter = 0
    /\ node_counter = 0
    /\ link_counter = 0
    /\ used_ports = <<>>
    /\ domain_graphs = <<>>
    /\ G = EmptyGraph
    /\ base_edges = <<>>
    /\ remaining_end_systems = 0
    /\ switch_end_system_counts = <<>>
    /\ topology = [switches |-> <<>>, end_systems |-> <<>>, links |-> <<>>]
    /\ rng = 0
    /\ pending = <<>>
    /\ handed = <<>>
    /\ call = EmptyCall
    /\ warnings = 0
    /\ exit_at = ""
    /\ conns = <<>>
    /\ gnp \in {[EmptyGnp EXCEPT !.state = "called", !.used_ports = t,
                                 !.connection_type = ct]
                  : t \in UsedPortTables, ct \in PortClasses}
    /\ RouteIdle

GetNextPortCall ==
    /\ gnp.state = "called"
    /\ LET r == GetNextPort(gnp.used_ports, gnp.node_id, gnp.connection_type)
       IN  gnp' = [gnp EXCEPT
                     !.state = IF r.exit THEN "exit" ELSE "returned",
                     !.used_ports = EnsureEntry(gnp.used_ports, gnp.node_id),
                     !.result = r]
    /\ UNCHANGED <<gen_vars, route_vars>>

NextPort == GetNextPortCall

SpecPort == InitPort /\ [][NextPort]_vars

----------------------------------------------------------------------------
(* _connect_domain_pair on its own: one call on two prepared domain graphs *)
(* of switches and a port table, the state the unit tests set up           *)

MaxPairSwitches == 3

\* the used-port sets a switch starts the call with
PairPortSets == {{}, 0..(PortCount - 1)}

PairGraph(n, first, domain) ==
    [nodes |-> NewSwitches(n, first, domain), edges |-> <<>>]

InitPair ==
    /\ \E n1, n2 \in 0..MaxPairSwitches, k \in 1..MaxConnectionsPerPair :
          /\ cfg = [num_domains |-> 2, topology_type |-> "mesh_graph",
                    topology_params |-> NoParams, num_switches |-> n1,
                    num_end_systems |-> 0, domain_connection_type |-> "line",
                    connections_per_domain_pair |-> k]
          /\ domain_graphs = <<PairGraph(n1, 0, 0), PairGraph(n2, n1, 1)>>
          /\ switch_counter = n1 + n2
          /\ used_ports \in [{SwitchId(i) : i \in 0..(n1 + n2 - 1)} -> PairPortSets]
          /\ topology = [switches |-> EntriesOfType(PairGraph(n1, 0, 0), "switch")
                                      \o EntriesOfType(PairGraph(n2, n1, 1), "switch"),
                         end_systems |-> <<>>, links |-> <<>>]
    /\ pc = "pairs"
    /\ domain_id = 2
    /\ node_counter = 0
    /\ link_counter = 0
    /\ G = EmptyGraph
    /\ base_edges = <<>>
    /\ remaining_end_systems = 0
    /\ switch_end_system_counts = <<>>
    /\ rng \in Seeds
    /\ pending = <<<<0, 1>>>>
    /\ handed = <<>>
    /\ call = EmptyCall
    /\ warnings = 0
    /\ exit_at = ""
    /\ conns = <<>>
    /\ gnp = EmptyGnp
    /\ RouteIdle

NextPair ==
    \/ ConnectDomainPair
    \/ ConnectSwitchPair

SpecPair == InitPair /\ [][NextPair]_vars

----------------------------------------------------------------------------
(* _generate_industrial_ring on its own: the head of _generate_domain_graph *)
(* for the ring strategy, over more switches and rings than Spec affords    *)

MaxRingSwitches == 9
MaxRingCount == 3

RingConfigs ==
    {[num_domains |-> 1, topology_type |-> "industrial_ring_graph",
      topology_params |-> p, num_switches |-> n, num_end_systems |-> 0,
      domain_connection_type |-> "none", connections_per_domain_pair |-> 1]
       : n \in 0..MaxRingSwitches,
         p \in {NoParams, Params(<<>>)}
               \cup {Params([cwsg_num_rings |-> a]) : a \in 1..MaxRingCount}}

InitRing ==
    /\ cfg \in RingConfigs
    /\ pc = "domain"
    /\ domain_id = 0
    /\ switch_counter = 0
    /\ node_counter = 0
    /\ link_counter = 0
    /\ used_ports = <<>>
    /\ domain_graphs = <<>>
    /\ G = EmptyGraph
    /\ base_edges = <<>>
    /\ remaining_end_systems = 0
    /\ switch_end_system_counts = <<>>
    /\ topology = [switches |-> <<>>, end_systems |-> <<>>, links |-> <<>>]
    /\ rng \in Seeds
    /\ pending = <<>>
    /\ handed = <<>>
    /\ call = EmptyCall
    /\ warnings = 0
    /\ exit_at = ""
    /\ conns = <<>>
    /\ gnp = EmptyGnp
    /\ RouteIdle

NextRing == GenerateDomainGraph

SpecRing == InitRing /\ [][NextRing]_vars

----------------------------------------------------------------------------
(* Route generation of tsn_case_gen_ (domain/route_generator.py).  The      *)
(* routing graph is an nx.Graph: "nodes" in insertion order, "edges" in     *)
(* insertion order, an edge carrying the data _build_graph stores on it.    *)
(* Utilization is a percentage.                                             *)

MaxStreams == 2                 \* streams of one run

DefaultBandwidthMbps == 1000    \* topology.get("default_bandwidth_mbps", 1000)
FullUtilization == 100          \* min(current + share, 100.0)

\* G.add_node(id, type=...): a node already present keeps its position
AddRoutingNode(g, id, type) ==
    IF \E i \in 1..Len(g.nodes) : g.nodes[i].id = id
    THEN [g EXCEPT !.nodes = [i \in 1..Len(g.nodes) |->
                                 IF g.nodes[i].id = id
                                 THEN [id |-> id, type |-> type]
                                 ELSE g.nodes[i]]]
    ELSE [g EXCEPT !.nodes = Append(@, [id |-> id, type |-> type])]

RECURSIVE AddRoutingNodes(_, _, _)
AddRoutingNodes(g, entries, type) ==
    IF entries = <<>> THEN g
    ELSE AddRoutingNodes(AddRoutingNode(g, Head(entries).id, type),
                         Tail(entries), type)

\* link.get("bandwidth_mbps", self.topology.get("default_bandwidth_mbps", 1000))
LinkBandwidth(topo, link) ==
    IF "bandwidth_mbps" \in DOMAIN link THEN link.bandwidth_mbps
    ELSE IF "default_bandwidth_mbps" \in DOMAIN topo
         THEN topo.default_bandwidth_mbps
         ELSE DefaultBandwidthMbps

\* link_data of a Link record
LinkData(topo, link) ==
    [u |-> link.source, v |-> link.destination,
     link_id |-> link.id,
     sourcePort |-> link.sourcePort,
     destinationPort |-> link.destinationPort,
     bandwidth_mbps |-> LinkBandwidth(topo, link),
     utilization |-> 0]

\* an endpoint G.add_edge meets that is not a node yet is added without data
AddMissingNode(g, id) ==
    IF \E i \in 1..Len(g.nodes) : g.nodes[i].id = id THEN g
    ELSE [g EXCEPT !.nodes = Append(@, [id |-> id, type |-> "none"])]

\* a faulty collapse: every Link record becomes an edge of its own, so that
\* a later record of a node pair replaces the data of the earlier one
RECURSIVE AddLinksLastWins(_, _, _, _)
AddLinksLastWins(g, topo, links, processed_links) ==
    IF links = <<>> THEN g
    ELSE LET link == Head(links)
             link_key == {link.source, link.destination}
             kept == SelectSeq(g.edges, LAMBDA e : {e.u, e.v} # link_key)
         IN  AddLinksLastWins(
                 [AddMissingNode(AddMissingNode(g, link.source),
                                 link.destination)
                    EXCEPT !.edges = Append(kept, LinkData(topo, link))],
                 topo, Tail(links), processed_links \cup {link_key})

\* the loop over topology["links"]: the first record of an unordered node
\* pair becomes the edge, every later record of the pair is skipped.
\* G.add_edge also adds endpoints that are not nodes yet (without a type).
RECURSIVE AddLinks(_, _, _, _)
AddLinks(g, topo, links, processed_links) ==
    IF links = <<>> THEN g
    ELSE LET link == Head(links)
             link_key == {link.source, link.destination}
         IN  IF link_key \in processed_links
             THEN AddLinks(g, topo, Tail(links), processed_links)
             ELSE AddLinks(
                     [AddMissingNode(AddMissingNode(g, link.source),
                                     link.destination)
                        EXCEPT !.edges = Append(@, LinkData(topo, link))],
                     topo, Tail(links), processed_links \cup {link_key})

RoutingNodeIds(g) == {g.nodes[i].id : i \in 1..Len(g.nodes)}

\* the neighbours of a set of nodes
RoutingNeighbours(g, S) ==
    {g.edges[i].v : i \in {j \in 1..Len(g.edges) : g.edges[j].u \in S}}
    \cup {g.edges[i].u : i \in {j \in 1..Len(g.edges) : g.edges[j].v \in S}}

RECURSIVE RoutingReached(_, _)
RoutingReached(g, S) ==
    LET T == S \cup RoutingNeighbours(g, S)
    IN  IF T = S THEN S ELSE RoutingReached(g, T)

\* nx.has_path(G, source, dest), for nodes of G
HasPath(g, source, dest) == dest \in RoutingReached(g, {source})

\* the (source, dest) pairs of end systems, source listed before dest, that
\* no path connects
DisconnectedPairs(g) ==
    LET end_systems == SelectSeq(g.nodes, LAMBDA nd : nd.type = "end_system")
    IN  {p \in (1..Len(end_systems)) \X (1..Len(end_systems)) :
            /\ p[1] < p[2]
            /\ ~HasPath(g, end_systems[p[1]].id, end_systems[p[2]].id)}

\* _build_graph: the graph it returns
BuildGraph(topo) ==
    AddLinks(AddRoutingNodes(AddRoutingNodes(EmptyRoutingGraph,
                                             topo.switches, "switch"),
                             topo.end_systems, "end_system"),
             topo, topo.links, {})

\* _build_graph: the warnings it logs (one summary line and one per pair)
BuildGraphWarnings(g) ==
    IF DisconnectedPairs(g) = {} THEN 0
    ELSE 1 + Cardinality(DisconnectedPairs(g))

----------------------------------------------------------------------------
(* Paths of the routing graph.  nx.shortest_path returns a path of least    *)
(* total weight (breadth-first search without weights, Dijkstra with        *)
(* them); which of several least paths it returns is fixed by the library   *)
(* for a given graph, and is left open here.                                *)

RECURSIVE SimplePathsFrom(_, _, _)
SimplePathsFrom(g, path, dest) ==
    IF path[Len(path)] = dest THEN {path}
    ELSE UNION {SimplePathsFrom(g, Append(path, n), dest) :
                  n \in RoutingNeighbours(g, {path[Len(path)]}) \ Range(path)}

\* every simple path from source to dest, as a list of node ids
SimplePaths(g, source, dest) == SimplePathsFrom(g, <<source>>, dest)

\* G[a][b]: the data of the edge between a and b
EdgeData(g, a, b) ==
    g.edges[CHOOSE i \in 1..Len(g.edges) : {g.edges[i].u, g.edges[i].v} = {a, b}]

\* the consecutive node pairs of a path
PathSteps(path) == {<<path[i], path[i + 1]>> : i \in 1..(Len(path) - 1)}

\* a faulty weight: the utilization is ignored
HopCountWeight(consider, e) == 1

\* weight_function(u, v, data), or 1 per edge when no weight is given
FirstPathWeight(consider, e) ==
    IF consider THEN 1 + e.utilization ELSE 1

\* the 'weight' attribute of an edge of temp_G: 1.0 doubled once for every
\* accepted path that uses the edge
DoubledWeight(paths, e) ==
    Pow(2, Cardinality({i \in 1..Len(paths) :
                          \E st \in PathSteps(paths[i]) :
                             {st[1], st[2]} = {e.u, e.v}}))

RECURSIVE SumOver(_, _)
SumOver(f, S) ==
    IF S = {} THEN 0
    ELSE LET x == CHOOSE y \in S : TRUE
         IN  f[x] + SumOver(f, S \ {x})

\* the total weight of a path under the edge weights W (edge data -> weight)
PathCost(g, path, W) ==
    SumOver([st \in PathSteps(path) |-> W[EdgeData(g, st[1], st[2])]],
            PathSteps(path))

\* the paths nx.shortest_path(G, source, dest, weight) may return
ShortestPaths(g, source, dest, W) ==
    LET all == SimplePaths(g, source, dest)
        cost == [p \in all |-> PathCost(g, p, W)]
    IN  {p \in all : \A q \in all : cost[p] <= cost[q]}

\* a faulty search: no additional path is looked for
AdditionalPathsNone(g, source, dest, num_paths, paths, attempts) == {paths}

\* a faulty repetition: an attempt that returns an accepted path is accepted
\* again
RECURSIVE AdditionalPathsRepeated(_, _, _, _, _, _)
AdditionalPathsRepeated(g, source, dest, num_paths, paths, attempts) ==
    IF attempts = 0 THEN {paths}
    ELSE UNION {
           IF Len(paths) + 1 >= num_paths THEN {Append(paths, new_path)}
           ELSE AdditionalPathsRepeated(g, source, dest, num_paths,
                                        Append(paths, new_path), attempts - 1)
           : new_path \in ShortestPaths(g, source, dest,
                          [e \in Range(g.edges) |-> DoubledWeight(paths, e)])}

\* the loop "for _ in range(num_paths - 1)": the lists of paths it may end
\* with.  An attempt that returns an accepted path leaves paths, and so the
\* weights of the next attempt, as they are: every later attempt returns
\* that path again.
RECURSIVE AdditionalPaths(_, _, _, _, _, _)
AdditionalPaths(g, source, dest, num_paths, paths, attempts) ==
    IF attempts = 0 THEN {paths}
    ELSE UNION {
           IF new_path \in Range(paths) THEN {paths}
           ELSE IF Len(paths) + 1 >= num_paths THEN {Append(paths, new_path)}
           ELSE AdditionalPaths(g, source, dest, num_paths,
                                Append(paths, new_path), attempts - 1)
           : new_path \in ShortestPaths(g, source, dest,
                          [e \in Range(g.edges) |-> DoubledWeight(paths, e)])}

\* _find_paths(source, dest, num_paths) on the graph g: the results it may
\* return, each with the number of warnings logged
FindPaths(g, consider, source, dest, num_paths) ==
    IF ~HasPath(g, source, dest)
    THEN {[paths |-> <<>>, warnings |-> 1]}
    ELSE UNION {
           IF num_paths <= 1
           THEN {[paths |-> <<first_path>>, warnings |-> 0]}
           ELSE {[paths |-> SubSeq(ps, 1, Min(Len(ps), num_paths)),
                  warnings |-> IF Len(ps) < num_paths THEN 1 ELSE 0]
                 : ps \in AdditionalPaths(g, source, dest, num_paths,
                                          <<first_path>>, num_paths - 1)}
           : first_path \in ShortestPaths(g, source, dest,
                     [e \in Range(g.edges) |-> FirstPathWeight(consider, e)])}

\* _find_link(source, dest): the position in topology["links"] of the first
\* record from source to dest, 0 for None
FindLink(topo, source, dest) ==
    IF \E i \in 1..Len(topo.links) :
          topo.links[i].source = source /\ topo.links[i].destination = dest
    THEN CHOOSE i \in 1..Len(topo.links) :
            /\ topo.links[i].source = source /\ topo.links[i].destination = dest
            /\ \A j \in 1..(i - 1) :
                  ~(topo.links[j].source = source
                    /\ topo.links[j].destination = dest)
    ELSE 0

----------------------------------------------------------------------------
(* Delay estimate.  np.random.lognormal is a function of numpy's generator  *)
(* state: np_random is that state, DelaySample the positive number a draw   *)
(* returns in it and NextNpRandom the step the draw makes.                  *)

DelaySamples == <<250, 50, 900>>
DelaySample(s) == DelaySamples[s + 1]
NextNpRandom(s) == (s + 1) % Len(DelaySamples)

\* the generator states np.random.seed leaves in the runs explored
NpSeeds == {0, 1}

\* get_delays_from_traffic_type: the first entry of that name; a bound the
\* entry lacks is None
GetDelaysFromTrafficType(traffic_type_name, tts) ==
    LET i == CHOOSE k \in 1..Len(tts) :
                /\ tts[k].name = traffic_type_name
                /\ \A j \in 1..(k - 1) : tts[j].name # traffic_type_name
    IN  IF \E k \in 1..Len(tts) : tts[k].name = traffic_type_name
        THEN [found |-> TRUE, min_delay |-> tts[i].min_delay,
              max_delay |-> tts[i].max_delay]
        ELSE [found |-> FALSE, min_delay |-> None, max_delay |-> None]

\* a faulty clip: only the lower bound is applied
ClipLowerOnly(x, a_min, a_max) == Max(x, a_min)

\* np.clip(x, a_min, a_max)
Clip(x, a_min, a_max) == Min(Max(x, a_min), a_max)

\* a faulty estimate: BEST-EFFORT is treated like every other type
CalculateMinE2eDelayNoBestEffort(path, traffic_type, deadline, tts, s) ==
    LET result == GetDelaysFromTrafficType(traffic_type, tts)
        num_hops == Len(path) - 1
        total_delay == Clip(DelaySample(s), result.min_delay, result.max_delay)
                       * num_hops
    IN  IF ~result.found \/ result.min_delay = None \/ result.max_delay = None
        THEN [raised |-> TRUE, value |-> 0, np_random |-> s]
        ELSE [raised |-> FALSE,
              value |-> IF deadline # None THEN Min(total_delay, deadline)
                        ELSE total_delay,
              np_random |-> NextNpRandom(s)]

\* _calculate_min_e2e_delay(path, traffic_type, deadline) in the generator
\* state s: whether it raises ValueError, the value it returns and the
\* generator state it leaves
CalculateMinE2eDelay(path, traffic_type, deadline, tts, s) ==
    LET result == GetDelaysFromTrafficType(traffic_type, tts)
        num_hops == Len(path) - 1
        mean_delay == (result.min_delay + result.max_delay) \div 2
        std_dev == Max(result.max_delay - result.min_delay,
                       result.min_delay - result.max_delay) \div 2
        random_delay == IF std_dev = 0 THEN mean_delay ELSE DelaySample(s)
        clipped_delay == Clip(random_delay, result.min_delay, result.max_delay)
        total_delay == clipped_delay * num_hops
    IN  IF traffic_type = "BEST-EFFORT"
        THEN [raised |-> FALSE, value |-> 0, np_random |-> s]
        ELSE IF ~result.found \/ result.min_delay = None
                \/ result.max_delay = None
        THEN [raised |-> TRUE, value |-> 0, np_random |-> s]
        ELSE [raised |-> FALSE,
              value |-> IF deadline # None THEN Min(total_delay, deadline)
                        ELSE total_delay,
              np_random |-> NextNpRandom(s)]

----------------------------------------------------------------------------
(* Utilization accounting *)

\* stream_utilization: the stream's bandwidth as a percentage of the link's
\* (size in bytes, period in microseconds, bandwidth in Mbit/s)
StreamUtilization(stream, bandwidth_mbps) ==
    (stream.size * 8 * 100) \div (stream.period * bandwidth_mbps)

\* a faulty list of steps: a link used by several paths is listed once
RECURSIVE AllStepsOnce(_)
AllStepsOnce(paths) ==
    IF paths = <<>> THEN <<>>
    ELSE LET rest == AllStepsOnce(Tail(paths))
             own == [i \in 1..(Len(Head(paths)) - 1) |->
                        <<Head(paths)[i], Head(paths)[i + 1]>>]
         IN  SelectSeq(own, LAMBDA st :
                 \A j \in 1..Len(rest) :
                    {rest[j][1], rest[j][2]} # {st[1], st[2]}) \o rest

\* the steps of all paths, in the order the loops visit them
RECURSIVE AllSteps(_)
AllSteps(paths) ==
    IF paths = <<>> THEN <<>>
    ELSE [i \in 1..(Len(Head(paths)) - 1) |->
             <<Head(paths)[i], Head(paths)[i + 1]>>] \o AllSteps(Tail(paths))

\* the dictionary d with d[k] = v
DictSet(d, k, v) == [x \in DOMAIN d \cup {k} |-> IF x = k THEN v ELSE d[x]]

\* a faulty accounting: the utilization is not capped
RECURSIVE ChargeStepsUncapped(_, _, _, _)
ChargeStepsUncapped(g, lu, steps, stream) ==
    IF steps = <<>> THEN [graph |-> g, link_utilization |-> lu]
    ELSE LET st == Head(steps)
             i == CHOOSE k \in 1..Len(g.edges) :
                     {g.edges[k].u, g.edges[k].v} = {st[1], st[2]}
             edge_data == g.edges[i]
             new_utilization ==
                 edge_data.utilization
                 + StreamUtilization(stream, edge_data.bandwidth_mbps)
         IN  ChargeStepsUncapped(
                 [g EXCEPT !.edges[i].utilization = new_utilization],
                 DictSet(lu, edge_data.link_id, new_utilization),
                 Tail(steps), stream)

\* the body of the loops of _update_link_utilization, step by step
RECURSIVE ChargeSteps(_, _, _, _)
ChargeSteps(g, lu, steps, stream) ==
    IF steps = <<>> THEN [graph |-> g, link_utilization |-> lu]
    ELSE LET st == Head(steps)
             i == CHOOSE k \in 1..Len(g.edges) :
                     {g.edges[k].u, g.edges[k].v} = {st[1], st[2]}
             edge_data == g.edges[i]
             new_utilization ==
                 edge_data.utilization
                 + StreamUtilization(stream, edge_data.bandwidth_mbps)
             capped == Min(new_utilization, FullUtilization)
         IN  ChargeSteps([g EXCEPT !.edges[i].utilization = capped],
                         DictSet(lu, edge_data.link_id, capped),
                         Tail(steps), stream)

\* a faulty accounting: the links are charged although utilization is not
\* considered
UpdateLinkUtilizationAlways(g, lu, consider, paths, stream) ==
    IF stream.period = None THEN [graph |-> g, link_utilization |-> lu]
    ELSE ChargeSteps(g, lu, AllSteps(paths), stream)

\* _update_link_utilization(paths, stream): the graph and the table after it
UpdateLinkUtilization(g, lu, consider, paths, stream) ==
    IF ~consider THEN [graph |-> g, link_utilization |-> lu]
    ELSE IF stream.period = None THEN [graph |-> g, link_utilization |-> lu]
    ELSE ChargeSteps(g, lu, AllSteps(paths), stream)

----------------------------------------------------------------------------
(* generate() of the RouteGenerator: one stream after the other, each       *)
(* through the endpoint checks, the path search per destination, the route  *)
(* definition and the utilization accounting.  A ValueError of the delay    *)
(* estimate is not caught: it ends the run (state "exit").                  *)

\* d.get(key, default)
Get(d, key, default) == IF key \in DOMAIN d THEN d[key] ELSE default

\* a faulty port lookup: the port at the far end of the link
HopPortDestination(topo, path, i) ==
    IF i < Len(path)
    THEN LET link == FindLink(topo, path[i], path[i + 1])
         IN  IF link # 0 THEN topo.links[link].destinationPort ELSE 0
    ELSE 0

\* the port of hop i of a path
HopPort(topo, path, i) ==
    IF i < Len(path)
    THEN LET link == FindLink(topo, path[i], path[i + 1])
         IN  IF link # 0 THEN topo.links[link].sourcePort ELSE 0
    ELSE 0

\* a faulty conversion: the hops are listed from the destination backwards
RoutePathBackwards(topo, path) ==
    [i \in 1..Len(path) |->
        [node |-> path[Len(path) + 1 - i], port |-> HopPort(topo, path, i)]]

\* route_path of a path
RoutePath(topo, path) ==
    [i \in 1..Len(path) |-> [node |-> path[i], port |-> HopPort(topo, path, i)]]

\* the "Missing link" warnings of the paths
MissingLinkWarnings(topo, paths) ==
    Cardinality(UNION {{<<p, i>> : i \in {k \in 1..(Len(paths[p]) - 1) :
                                   FindLink(topo, paths[p][k],
                                            paths[p][k + 1]) = 0}}
                       : p \in 1..Len(paths)})

CurrentStream == streams[stream_index + 1]

route_frame == <<cfg, domain_id, switch_counter, node_counter, link_counter,
                 used_ports, domain_graphs, G, base_edges,
                 remaining_end_systems, switch_end_system_counts, topology,
                 rng, pending, handed, call, conns, gnp,
                 streams, traffic_types, consider_link_utilization,
                 np_seed, find_paths_call, delay_call, first_run>>

\* a faulty rejection: the delay sample of the stream has been drawn
RejectStreamAfterDraw(logged, graph_after) ==
    /\ pc' = "route_stream"
    /\ stream_index' = stream_index + 1
    /\ destination_index' = 0
    /\ all_paths' = <<>>
    /\ warnings' = warnings + logged
    /\ np_random' = NextNpRandom(np_random)
    /\ graph' = graph_after
    /\ UNCHANGED <<exit_at, link_utilization, routes, route>>

\* the stream is left out: generate() goes on with the next one
RejectStream(logged, graph_after) ==
    /\ pc' = "route_stream"
    /\ stream_index' = stream_index + 1
    /\ destination_index' = 0
    /\ all_paths' = <<>>
    /\ warnings' = warnings + logged
    /\ graph' = graph_after
    /\ UNCHANGED <<exit_at, link_utilization, routes, route, np_random>>

\* _generate_route_for_stream: source and destinations are nodes of the graph
ValidateEndpoints ==
    /\ pc = "route_stream"
    /\ stream_index < Len(streams)
    /\ LET stream == CurrentStream
           known == RoutingNodeIds(graph)
       IN  IF stream.source \notin known THEN RejectStream(1, graph)
           ELSE IF \E i \in 1..Len(stream.destinations) :
                      stream.destinations[i].id \notin known
           THEN RejectStream(1, graph)
           ELSE /\ pc' = "route_paths"
                /\ destination_index' = 0
                /\ all_paths' = <<>>
                /\ UNCHANGED <<stream_index, warnings, exit_at, graph,
                               link_utilization, routes, route, np_random>>
    /\ UNCHANGED <<route_frame, found_paths>>

\* self.graph as _find_paths holds it: its attribute dictionaries are the
\* generator's own ("self")
SelfGraph(g) == [cells |-> "self", nodes |-> g.nodes, edges |-> g.edges]

\* a faulty copy: the attribute dictionaries are shared with the original
GraphCopyShared(h) == h

\* Graph.copy(): a graph with attribute dictionaries of its own, holding
\* the values of the original's
GraphCopy(h) == [h EXCEPT !.cells = "copy"]

\* temp_G[u][v]['weight'] = temp_G[u][v].get('weight', 1.0) * 2.0 for every
\* step of every accepted path
DoubleWeights(h, paths) ==
    [h EXCEPT !.edges =
        [k \in 1..Len(h.edges) |->
            LET e == h.edges[k]
                n == Cardinality({i \in 1..Len(paths) :
                                    \E st \in PathSteps(paths[i]) :
                                       {st[1], st[2]} = {e.u, e.v}})
            IN  IF n = 0 THEN e
                ELSE DictSet(e, "weight", Get(e, "weight", 1) * Pow(2, n))]]

\* self.graph after one attempt of the loop with the accepted paths: the
\* weights are written to temp_G, a copy of the copy G of self.graph
AfterAttempt(g, paths) ==
    LET temp_G == DoubleWeights(GraphCopy(GraphCopy(SelfGraph(g))), paths)
    IN  IF temp_G.cells = "self" THEN [g EXCEPT !.edges = temp_G.edges]
        ELSE g

\* self.graph after the attempts t..last of a search that ended with the
\* paths ps: attempt t works with the first t of them while there are as
\* many, a failed attempt leaves the accepted paths as they are
RECURSIVE AfterAttempts(_, _, _, _)
AfterAttempts(g, ps, t, last) ==
    IF t > last THEN g
    ELSE AfterAttempts(AfterAttempt(g, SubSeq(ps, 1, Min(t, Len(ps)))),
                       ps, t + 1, last)

\* self.graph after _find_paths(source, dest, num_paths) returned paths: the
\* loop ends with the attempt that completes the requested number, or
\* after num_paths - 1 attempts
GraphAfterFindPaths(g, num_paths, paths) ==
    IF paths = <<>> \/ num_paths <= 1 THEN g
    ELSE AfterAttempts(g, paths, 1,
                       IF Len(paths) >= num_paths THEN Len(paths) - 1
                       ELSE num_paths - 1)

\* the state of the generator a call of _find_paths depends on, and its
\* arguments
FindPathsArguments(source, dest, num_paths) ==
    [graph |-> graph, consider |-> consider_link_utilization,
     source |-> source, dest |-> dest, num_paths |-> num_paths]

\* what the call self._find_paths(source, dest, num_paths) can return:
\* networkx computes a function of its arguments, so a call with arguments
\* seen before returns what it returned then
FindPathsResults(source, dest, num_paths) ==
    LET a == FindPathsArguments(source, dest, num_paths)
    IN  IF a \in DOMAIN found_paths THEN {found_paths[a]}
        ELSE FindPaths(graph, consider_link_utilization, source, dest,
                       num_paths)

\* a faulty search loop: a destination without a path is passed over
FindPathsForDestinationPartial ==
    /\ pc = "route_paths"
    /\ destination_index < Len(CurrentStream.destinations)
    /\ LET stream == CurrentStream
           dest == stream.destinations[destination_index + 1]
       IN  \E r \in FindPathsResults(stream.source, dest.id,
                                     Get(stream, "redundancy", 0) + 1) :
           /\ found_paths' =
                 DictSet(found_paths,
                         FindPathsArguments(stream.source, dest.id,
                                            Get(stream, "redundancy", 0) + 1),
                         r)
           /\ all_paths' = all_paths \o r.paths
           /\ destination_index' = destination_index + 1
           /\ warnings' = warnings + r.warnings
           /\ graph' = GraphAfterFindPaths(graph,
                                           Get(stream, "redundancy", 0) + 1,
                                           r.paths)
           /\ UNCHANGED <<pc, stream_index, exit_at,
                          link_utilization, routes, route, np_random>>
    /\ UNCHANGED route_frame

\* _generate_route_for_stream: the paths to the next destination
FindPathsForDestination ==
    /\ pc = "route_paths"
    /\ destination_index < Len(CurrentStream.destinations)
    /\ LET stream == CurrentStream
           dest == stream.destinations[destination_index + 1]
       IN  \E r \in FindPathsResults(stream.source, dest.id,
                                     Get(stream, "redundancy", 0) + 1) :
           /\ found_paths' =
                 DictSet(found_paths,
                         FindPathsArguments(stream.source, dest.id,
                                            Get(stream, "redundancy", 0) + 1),
                         r)
           /\ LET graph_after ==
                     GraphAfterFindPaths(graph,
                                         Get(stream, "redundancy", 0) + 1,
                                         r.paths)
              IN  IF r.paths = <<>>
                  THEN RejectStream(r.warnings + 1, graph_after)
                  ELSE /\ all_paths' = all_paths \o r.paths
                       /\ destination_index' = destination_index + 1
                       /\ warnings' = warnings + r.warnings
                       /\ graph' = graph_after
                       /\ UNCHANGED <<pc, stream_index, exit_at,
                                      link_utilization, routes, route,
                                      np_random>>
    /\ UNCHANGED route_frame

\* a faulty route definition: the ValueError of the estimate is caught and
\* the stream is left out
CreateRouteSkipsStream ==
    /\ pc = "route_paths"
    /\ destination_index = Len(CurrentStream.destinations)
    /\ LET stream == CurrentStream
           d == CalculateMinE2eDelay(all_paths[1], Get(stream, "type", None),
                                     Get(stream, "deadline", None),
                                     traffic_types, np_random)
       IN  IF all_paths = <<>> \/ d.raised
           THEN /\ RejectStream(1, graph)
                /\ UNCHANGED <<route_frame, found_paths>>
           ELSE /\ pc' = "route_account"
                /\ route' = [flow_id |-> stream.id,
                             paths |-> [i \in 1..Len(all_paths) |->
                                           RoutePath(topology, all_paths[i])],
                             min_e2e_delay |-> d.value]
                /\ np_random' = d.np_random
                /\ warnings' = warnings + MissingLinkWarnings(topology, all_paths)
                /\ UNCHANGED <<exit_at, stream_index, destination_index,
                               all_paths, graph, link_utilization, routes>>
                /\ UNCHANGED <<route_frame, found_paths>>

\* _generate_route_for_stream: the route definition (all_paths[0] of an
\* empty list is an IndexError)
CreateRoute ==
    /\ pc = "route_paths"
    /\ destination_index = Len(CurrentStream.destinations)
    /\ LET stream == CurrentStream
           d == CalculateMinE2eDelay(all_paths[1], Get(stream, "type", None),
                                     Get(stream, "deadline", None),
                                     traffic_types, np_random)
       IN  IF all_paths = <<>>
           THEN /\ pc' = "exit"
                /\ exit_at' = "all_paths"
                /\ UNCHANGED <<route, np_random, warnings>>
           ELSE IF d.raised
           THEN /\ pc' = "exit"
                /\ exit_at' = "min_e2e_delay"
                /\ UNCHANGED <<route, np_random, warnings>>
           ELSE /\ pc' = "route_account"
                /\ route' = [flow_id |-> stream.id,
                             paths |-> [i \in 1..Len(all_paths) |->
                                           RoutePath(topology, all_paths[i])],
                             min_e2e_delay |-> d.value]
                /\ np_random' = d.np_random
                /\ warnings' = warnings + MissingLinkWarnings(topology, all_paths)
                /\ UNCHANGED exit_at
    /\ UNCHANGED <<stream_index, destination_index, all_paths, graph,
                   link_utilization, routes>>
    /\ UNCHANGED <<route_frame, found_paths>>

\* a faulty accounting: the charge of the stream is put off, the path
\* search of the next stream starts on the utilization before it
AccountAndAppendDeferred ==
    /\ pc = "route_account"
    /\ routes' = Append(routes, route)
    /\ pc' = "route_stream"
    /\ stream_index' = stream_index + 1
    /\ destination_index' = 0
    /\ all_paths' = <<>>
    /\ route' = EmptyRoute
    /\ UNCHANGED <<graph, link_utilization, warnings, exit_at, np_random>>
    /\ UNCHANGED <<route_frame, found_paths>>

\* _generate_route_for_stream: the accounting; generate() appends the route
AccountAndAppend ==
    /\ pc = "route_account"
    /\ LET u == UpdateLinkUtilization(graph, link_utilization,
                                      consider_link_utilization, all_paths,
                                      CurrentStream)
       IN  /\ graph' = u.graph
           /\ link_utilization' = u.link_utilization
    /\ routes' = Append(routes, route)
    /\ pc' = "route_stream"
    /\ stream_index' = stream_index + 1
    /\ destination_index' = 0
    /\ all_paths' = <<>>
    /\ route' = EmptyRoute
    /\ UNCHANGED <<warnings, exit_at, np_random>>
    /\ UNCHANGED <<route_frame, found_paths>>

\* generate(): every stream has been handled, routes_def is returned
ReturnRoutes ==
    /\ pc = "route_stream"
    /\ stream_index = Len(streams)
    /\ pc' = "routes_done"
    /\ UNCHANGED <<stream_index, destination_index, all_paths, route, graph,
                   link_utilization, routes, warnings, exit_at, np_random>>
    /\ UNCHANGED <<route_frame, found_paths>>

NextRoute ==
    \/ ValidateEndpoints
    \/ FindPathsForDestination
    \/ CreateRoute
    \/ AccountAndAppend
    \/ ReturnRoutes

----------------------------------------------------------------------------
(* The route-generation runs the model explores: topologies as the unit     *)
(* tests write them (a Link record per direction of a connection) and       *)
(* stream lists over their end systems.                                     *)

\* the two Link records of a connection between port pa of a and port pb of b
DuplexLink(id, a, pa, b, pb) ==
    << [id |-> id, source |-> a, destination |-> b,
        sourcePort |-> pa, destinationPort |-> pb],
       [id |-> id + 1, source |-> b, destination |-> a,
        sourcePort |-> pb, destinationPort |-> pa] >>

WithBandwidth(links, bw) ==
    [i \in 1..Len(links) |-> links[i] @@ [bandwidth_mbps |-> bw]]

SwitchEntries(n) == [i \in 1..n |-> [id |-> SwitchId(i - 1), ports |-> PortCount]]
EndSystemEntries(n) == [i \in 1..n |-> [id |-> EndSystemId(i - 1)]]

\* ES0 - SW0 - SW1 - ES1
LineLinks ==
    DuplexLink(0, EndSystemId(0), 0, SwitchId(0), 6)
    \o DuplexLink(2, SwitchId(0), 2, SwitchId(1), 3)
    \o DuplexLink(4, SwitchId(1), 6, EndSystemId(1), 0)

LineTopology ==
    [switches |-> SwitchEntries(2), end_systems |-> EndSystemEntries(2),
     links |-> LineLinks]

\* the line with a second, parallel connection between SW0 and SW1, listed
\* first, with an end system ES2 without any link, and without the Link
\* record from ES1 to SW1
ParallelTopology ==
    [switches |-> SwitchEntries(2), end_systems |-> EndSystemEntries(3),
     links |-> DuplexLink(6, SwitchId(1), 5, SwitchId(0), 4)
               \o SelectSeq(LineLinks,
                            LAMBDA l : ~(l.source = EndSystemId(1)
                                         /\ l.destination = SwitchId(1)))]

\* a ring of four switches, ES0 at SW0, ES1 at SW1, ES2 at SW2; every link
\* of 100 Mbit/s
SquareTopology ==
    [switches |-> SwitchEntries(4), end_systems |-> EndSystemEntries(3),
     links |-> WithBandwidth(
                  DuplexLink(0, SwitchId(0), 2, SwitchId(1), 3)
                  \o DuplexLink(2, SwitchId(1), 2, SwitchId(2), 3)
                  \o DuplexLink(4, SwitchId(2), 2, SwitchId(3), 3)
                  \o DuplexLink(6, SwitchId(3), 2, SwitchId(0), 3)
                  \o DuplexLink(8, SwitchId(0), 6, EndSystemId(0), 0)
                  \o DuplexLink(10, SwitchId(1), 6, EndSystemId(1), 0)
                  \o DuplexLink(12, SwitchId(2), 6, EndSystemId(2), 0), 100)]

RouteTopologies == {LineTopology, ParallelTopology, SquareTopology}

\* the traffic types of the configuration: without and with bounds for
\* BEST-EFFORT; VIDEO lacks its max_delay, INVERTED has its bounds swapped
TrafficTypeTables ==
    LET configured ==
          << [name |-> "CONTROL", min_delay |-> 100, max_delay |-> 500],
             [name |-> "AUDIO", min_delay |-> 200, max_delay |-> 200],
             [name |-> "VIDEO", min_delay |-> 100, max_delay |-> None],
             [name |-> "INVERTED", min_delay |-> 500, max_delay |-> 100] >>
    IN  {configured,
         <<[name |-> "BEST-EFFORT", min_delay |-> 100, max_delay |-> 500]>>
         \o configured}

Destination(k, deadline) == [id |-> EndSystemId(k), deadline |-> deadline]

\* stream descriptors, still without their id.  ES9 is in no topology.
StreamCandidates ==
    { [source |-> EndSystemId(0), destinations |-> <<Destination(1, 300)>>,
       type |-> "CONTROL", size |-> 500, period |-> 100, redundancy |-> 0],
      [source |-> EndSystemId(0), destinations |-> <<Destination(2, None)>>,
       type |-> "BEST-EFFORT", size |-> 500, period |-> None,
       redundancy |-> 1, deadline |-> 300],
      [source |-> EndSystemId(0),
       destinations |-> <<Destination(1, 2000), Destination(2, 2000)>>,
       type |-> "CONTROL", size |-> 500, period |-> 100],
      [source |-> EndSystemId(9), destinations |-> <<Destination(1, None)>>,
       type |-> "CONTROL", size |-> 500, period |-> 100, redundancy |-> 0],
      [source |-> EndSystemId(0),
       destinations |-> <<Destination(1, None), Destination(9, None)>>,
       type |-> "CONTROL", size |-> 500, period |-> 100, redundancy |-> 0],
      [source |-> EndSystemId(0), destinations |-> <<Destination(1, None)>>,
       type |-> "VIDEO", size |-> 500, period |-> 100, redundancy |-> 0],
      [source |-> EndSystemId(0), destinations |-> <<Destination(2, 1000)>>,
       type |-> "AUDIO", size |-> 750, period |-> 100, redundancy |-> 1,
       deadline |-> 300],
      [source |-> EndSystemId(1), destinations |-> <<Destination(0, None)>>,
       type |-> "BEST-EFFORT", size |-> 750, period |-> None,
       redundancy |-> 0] }

\* the stream lists: the streams are numbered in list order
StreamLists ==
    UNION {{[i \in 1..n |-> c[i] @@ [id |-> i - 1]]
              : c \in [1..n -> StreamCandidates]} : n \in 1..MaxStreams}

\* RouteGenerator(topology, streams, ...) has been constructed
InitRoute ==
    /\ cfg = [num_domains |-> 1, topology_type |-> "mesh_graph",
              topology_params |-> NoParams, num_switches |-> 0,
              num_end_systems |-> 0, domain_connection_type |-> "none",
              connections_per_domain_pair |-> 1]
    /\ pc = "route_stream"
    /\ domain_id = 0
    /\ switch_counter = 0
    /\ node_counter = 0
    /\ link_counter = 0
    /\ used_ports = <<>>
    /\ domain_graphs = <<>>
    /\ G = EmptyGraph
    /\ base_edges = <<>>
    /\ remaining_end_systems = 0
    /\ switch_end_system_counts = <<>>
    /\ topology \in RouteTopologies
    /\ rng = 0
    /\ pending = <<>>
    /\ handed = <<>>
    /\ call = EmptyCall
    /\ exit_at = ""
    /\ conns = <<>>
    /\ gnp = EmptyGnp
    /\ streams \in StreamLists
    /\ traffic_types \in TrafficTypeTables
    /\ consider_link_utilization \in BOOLEAN
    /\ graph = BuildGraph(topology)
    /\ warnings = BuildGraphWarnings(graph)
    /\ link_utilization = <<>>
    /\ routes = <<>>
    /\ stream_index = 0
    /\ destination_index = 0
    /\ all_paths = <<>>
    /\ route = EmptyRoute
    /\ np_seed \in NpSeeds
    /\ np_random = np_seed
    /\ find_paths_call = EmptyFindPathsCall
    /\ delay_call = EmptyDelayCall
    /\ found_paths = <<>>
    /\ first_run = EmptyFirstRun

SpecRoute == InitRoute /\ [][NextRoute]_vars

----------------------------------------------------------------------------
(* Properties of the returned topology *)

Links == topology.links
LinkIndex == 1..Len(Links)

IsSwitch(id) == id[1] = "SW"

TopologyNodeIds ==
    {topology.switches[i].id : i \in 1..Len(topology.switches)}
    \cup {topology.end_systems[i].id : i \in 1..Len(topology.end_systems)}

Returned == pc = "done"

\* C1: in a returned topology no two Link records share (source, sourcePort),
\* and every port used on a switch, as source or as destination port, lies in
\* 0..7.
C1_PortsConflictFree ==
    Returned =>
       /\ \A i, j \in LinkIndex :
             i # j => <<Links[i].source, Links[i].sourcePort>>
                      # <<Links[j].source, Links[j].sourcePort>>
       /\ \A i \in LinkIndex :
             /\ IsSwitch(Links[i].source) =>
                   Links[i].sourcePort \in 0..(PortCount - 1)
             /\ IsSwitch(Links[i].destination) =>
                   Links[i].destinationPort \in 0..(PortCount - 1)

\* a returned topology in which one switch uses all of its 8 ports
C1_Witness ==
    /\ Returned
    /\ \E i \in LinkIndex :
          /\ IsSwitch(Links[i].source)
          /\ {Links[j].sourcePort : j \in {k \in LinkIndex :
                                             Links[k].source = Links[i].source}}
             = 0..(PortCount - 1)

\* C2: in a returned topology the source and the destination of every Link
\* record are ids of nodes listed in switches or end_systems.
C2_ReferentialIntegrity ==
    Returned =>
       \A i \in LinkIndex :
          /\ Links[i].source \in TopologyNodeIds
          /\ Links[i].destination \in TopologyNodeIds

\* a returned topology of several domains with end-system links and
\* inter-domain links
C2_Witness ==
    /\ Returned
    /\ \E i \in LinkIndex : ~IsSwitch(Links[i].destination)
    /\ \E i \in LinkIndex : Links[i].bandwidth_mbps = 10000

\* the Link record of connection c in the direction a -> b, resp. b -> a
IsForward(l, c) ==
    /\ l.source = c.a /\ l.destination = c.b
    /\ l.sourcePort = c.pa /\ l.destinationPort = c.pb

IsReverse(l, c) ==
    /\ l.source = c.b /\ l.destination = c.a
    /\ l.sourcePort = c.pb /\ l.destinationPort = c.pa

\* C3: in a returned topology every logical connection made appears as
\* exactly two Link records, (a,b) with ports (p,q) and (b,a) with ports
\* (q,p), of equal bandwidth and delay and with consecutive ids; all Link ids
\* differ and there are exactly twice as many records as connections.
C3_BidirectionalPairs ==
    Returned =>
       /\ Len(Links) = 2 * Len(conns)
       /\ \A i, j \in LinkIndex : i # j => Links[i].id # Links[j].id
       /\ \A k \in 1..Len(conns) :
             LET fwd == {i \in LinkIndex : IsForward(Links[i], conns[k])}
                 rev == {i \in LinkIndex : IsReverse(Links[i], conns[k])}
             IN  /\ Cardinality(fwd) = 1
                 /\ Cardinality(rev) = 1
                 /\ \A i \in fwd, j \in rev :
                       /\ Links[j].id = Links[i].id + 1
                       /\ Links[j].bandwidth_mbps = Links[i].bandwidth_mbps
                       /\ Links[j].delay = Links[i].delay

\* a returned topology with connections of all three classes
C3_Witness ==
    /\ Returned
    /\ \E k \in 1..Len(conns) : ~IsSwitch(conns[k].b)
    /\ \E i \in LinkIndex : Links[i].bandwidth_mbps = 1000
    /\ \E i \in LinkIndex : Links[i].bandwidth_mbps = 10000

----------------------------------------------------------------------------
(* Properties of _get_next_port *)

\* the priority list the allocator is said to use for a connection class
ClaimedPriority(connection_type) ==
    CASE connection_type = "domain_connection" -> <<0, 1>>
      [] connection_type = "switch_to_switch" -> <<2, 3, 4, 5>>
      [] connection_type = "switch_to_end_system" -> <<6, 7, 0, 1, 2, 3, 4, 5>>
      [] OTHER -> <<0, 1, 2, 3, 4, 5, 6, 7>>

\* C4: _get_next_port returns the first port of the class's priority list
\* that is free on the switch; when the whole list is used, the lowest free
\* port of 0..7, with a warning; it terminates the run only when all 8 ports
\* are used; the port returned is never a used one.
C4_NextPort ==
    gnp.state \in {"returned", "exit"} =>
       LET used == gnp.used_ports[gnp.node_id]
           list == ClaimedPriority(gnp.connection_type)
           free == {i \in 1..Len(list) : list[i] \notin used}
           port == gnp.result.port
       IN  /\ (gnp.state = "exit") = (used = 0..(PortCount - 1))
           /\ gnp.state = "returned" =>
                 /\ port \notin used
                 /\ port \in 0..(PortCount - 1)
                 /\ free # {} =>
                       /\ ~gnp.result.warned
                       /\ \E i \in free : /\ list[i] = port
                                          /\ \A j \in free : i <= j
                 /\ free = {} =>
                       /\ gnp.result.warned
                       /\ \A q \in 0..(PortCount - 1) : q \notin used => port <= q

\* a degraded allocation: the class's list is used up and a port outside it
\* is returned
C4_Witness ==
    /\ gnp.state = "returned"
    /\ gnp.connection_type = "switch_to_switch"
    /\ gnp.used_ports[gnp.node_id] = {0, 2, 3, 4, 5}
    /\ gnp.result.port = 1

----------------------------------------------------------------------------
(* Properties of the parameter checks of mesh, tree and industrial ring *)

RequiredParams(t) ==
    CASE t = "mesh_graph" -> {"n", "m"}
      [] t = "tree_graph" -> {"r", "h"}
      [] t = "industrial_ring_graph" -> {"cwsg_num_rings"}
      [] OTHER -> {}

ParamMissing(c) ==
    \E k \in RequiredParams(c.topology_type) : ~Has(c.topology_params, k)

\* the node count the parameters imply
ImpliedCount(c) ==
    LET d == c.topology_params.dict
    IN  CASE c.topology_type = "mesh_graph" -> d.n * d.m
          [] c.topology_type = "tree_graph" ->
                LET RECURSIVE sum(_)
                    sum(i) == IF i > d.h THEN 0 ELSE Pow(d.r, i) + sum(i + 1)
                IN  sum(0)
          [] c.topology_type = "industrial_ring_graph" ->
                d.cwsg_num_rings
                   * (IF c.num_switches \div d.cwsg_num_rings > 3
                      THEN c.num_switches \div d.cwsg_num_rings ELSE 3)

Rejected(c) ==
    /\ c.topology_type \in {"mesh_graph", "tree_graph", "industrial_ring_graph"}
    /\ ParamMissing(c) \/ ImpliedCount(c) # c.num_switches

NothingCreated ==
    /\ switch_counter = 0 /\ node_counter = 0 /\ link_counter = 0
    /\ G = EmptyGraph /\ domain_graphs = <<>> /\ used_ports = <<>>
    /\ topology = [switches |-> <<>>, end_systems |-> <<>>, links |-> <<>>]
    /\ conns = <<>>

\* C5: for mesh, tree and industrial ring, when a required parameter is
\* missing or the node count implied by the parameters differs from the
\* requested switch count (smaller or larger), the run terminates fatally in
\* the base-graph step, before any switch, end system or link exists, and no
\* topology is returned.
C5_MismatchIsFatal ==
    Rejected(cfg) =>
       /\ pc \in {"start", "domain", "exit"}
       /\ pc = "exit" => exit_at = "base_graph"
       /\ NothingCreated

\* a run ended because the mesh is larger than the switch count
C5_Witness ==
    /\ pc = "exit"
    /\ exit_at = "base_graph"
    /\ cfg.topology_type = "mesh_graph"
    /\ ~ParamMissing(cfg)
    /\ ImpliedCount(cfg) > cfg.num_switches
    /\ cfg.num_switches > 0

----------------------------------------------------------------------------
(* Properties of the end systems of a domain graph *)

NodesOfType(g, type) ==
    {g.nodes[i] : i \in {j \in 1..Len(g.nodes) : g.nodes[j].type = type}}

EdgesAt(g, id) ==
    {i \in 1..Len(g.edges) : g.edges[i].a = id \/ g.edges[i].b = id}

\* the neighbour of id over edge e, and the port of e on id's side
Neighbour(e, id) == IF e.a = id THEN e.b ELSE e.a
PortAt(e, id) == IF e.a = id THEN e.source_port ELSE e.dest_port

EndSystemsAt(g, sw) ==
    {es \in NodesOfType(g, "end_system") :
        \E i \in EdgesAt(g, es.id) : Neighbour(g.edges[i], es.id) = sw.id}

\* C6: in every domain graph _generate_domain_graph returned, each end
\* system has exactly one edge, to a switch of its own domain, with port 0 on
\* the end system's side; no switch carries more than 4 end systems; and when
\* 4 * (number of switches) >= the requested number, exactly the requested
\* number of end systems exists.
C6_EndSystemAttachment ==
    \A d \in 1..Len(domain_graphs) :
       LET g == domain_graphs[d]
           sws == NodesOfType(g, "switch")
           ess == NodesOfType(g, "end_system")
       IN  /\ \A es \in ess :
                /\ Cardinality(EdgesAt(g, es.id)) = 1
                /\ \A i \in EdgesAt(g, es.id) :
                      /\ \E sw \in sws : /\ sw.id = Neighbour(g.edges[i], es.id)
                                         /\ sw.domain = es.domain
                      /\ PortAt(g.edges[i], es.id) = 0
           /\ \A sw \in sws : Cardinality(EndSystemsAt(g, sw)) <= 4
           /\ 4 * Cardinality(sws) >= cfg.num_end_systems =>
                 Cardinality(ess) = cfg.num_end_systems

\* a returned domain graph with all 5 requested end systems, 4 of them on
\* one switch
C6_Witness ==
    \E d \in 1..Len(domain_graphs) :
       LET g == domain_graphs[d]
       IN  /\ Cardinality(NodesOfType(g, "end_system")) = 5
           /\ cfg.num_end_systems = 5
           /\ \E sw \in NodesOfType(g, "switch") :
                 Cardinality(EndSystemsAt(g, sw)) = 4

FewerThanRequested(g) ==
    Cardinality(NodesOfType(g, "end_system")) < cfg.num_end_systems

\* C7 as claimed: end-system distribution fails softly: a domain graph with
\* fewer end systems than requested is returned only when no switch can take
\* another one, and the run is never aborted while end systems are attached.
C7_NeverAbortsAttaching ==
    /\ ~(pc = "exit" /\ exit_at = "end_system")
    /\ \A d \in 1..Len(domain_graphs) :
          FewerThanRequested(domain_graphs[d]) =>
             \A sw \in NodesOfType(domain_graphs[d], "switch") :
                Cardinality(EndSystemsAt(domain_graphs[d], sw)) = 4

\* C7 as amended: a domain graph with fewer end systems than requested is
\* returned, with a warning logged, only when every switch of the domain
\* already carries 4 end systems; the run is aborted while end systems are
\* attached only when a switch that carries fewer than 4 end systems, and so
\* can still be picked, has all 8 ports in use.
C7_SoftUnlessPortsExhausted ==
    /\ (pc = "exit" /\ exit_at = "end_system") =>
          \E s \in Range(SwitchesOf(G)) :
             /\ used_ports[s] = 0..(PortCount - 1)
             /\ switch_end_system_counts[s] < 4
    /\ \A d \in 1..Len(domain_graphs) :
          FewerThanRequested(domain_graphs[d]) =>
             /\ warnings > 0
             /\ \A sw \in NodesOfType(domain_graphs[d], "switch") :
                   Cardinality(EndSystemsAt(domain_graphs[d], sw)) = 4

\* a domain graph returned with 4 of the 5 requested end systems, all on its
\* only switch
C7_Witness ==
    \E d \in 1..Len(domain_graphs) :
       /\ FewerThanRequested(domain_graphs[d])
       /\ Cardinality(NodesOfType(domain_graphs[d], "switch")) = 1
       /\ Cardinality(NodesOfType(domain_graphs[d], "end_system")) = 4

----------------------------------------------------------------------------
(* Properties of _connect_domain_pair *)

CallReturned == handed # <<>> /\ ~call.active /\ pc # "exit"

\* the Link records the call has added
AddedLinks == SubSeq(Links, call.links_before + 1, Len(Links))

\* C8: a call of _connect_domain_pair(d1, d2) that returns has added exactly
\* min(connections per pair, switches in d1, switches in d2) connections,
\* two Link records each, every one between a switch of d1 and a switch of
\* d2, and no switch of either domain serves two of them; when a domain has
\* no switch the call adds no link and leaves the port table as it was.
C8_ConnectDomainPair ==
    CallReturned =>
       LET k == Min(cfg.connections_per_domain_pair, Min(call.n1, call.n2))
           sw1 == Range(SwitchesOf(domain_graphs[call.domain1 + 1]))
           sw2 == Range(SwitchesOf(domain_graphs[call.domain2 + 1]))
           fwd(i) == AddedLinks[2 * i - 1]
           rev(i) == AddedLinks[2 * i]
       IN  /\ Len(AddedLinks) = 2 * k
           /\ \A i \in 1..k :
                 /\ fwd(i).source \in sw1 /\ fwd(i).destination \in sw2
                 /\ rev(i).source = fwd(i).destination
                 /\ rev(i).destination = fwd(i).source
           /\ \A i, j \in 1..k :
                 i # j => /\ fwd(i).source # fwd(j).source
                          /\ fwd(i).destination # fwd(j).destination
           /\ (call.n1 = 0 \/ call.n2 = 0) =>
                 /\ AddedLinks = <<>>
                 /\ used_ports = call.ports_before

\* a returned call that made two connections between domains of different
\* sizes
C8_Witness ==
    /\ CallReturned
    /\ Len(AddedLinks) = 4
    /\ call.n1 # call.n2

----------------------------------------------------------------------------
(* Properties of the pairs of domains handed to _connect_domain_pair *)

NumDomains == cfg.num_domains

ConnectedRun(type) ==
    /\ Returned
    /\ NumDomains >= 2
    /\ cfg.domain_connection_type = type

\* the grid the square strategy is said to use
GridRows == CHOOSE r \in 1..NumDomains :
               r * r <= NumDomains /\ (r + 1) * (r + 1) > NumDomains
GridCols == CHOOSE c \in 1..NumDomains :
               GridRows * c >= NumDomains /\ GridRows * (c - 1) < NumDomains
RowOf(i) == i \div GridCols
ColOf(i) == i % GridCols

GridNeighbours ==
    {p \in (0..(NumDomains - 1)) \X (0..(NumDomains - 1)) :
        \/ RowOf(p[2]) = RowOf(p[1]) /\ ColOf(p[2]) = ColOf(p[1]) + 1
        \/ ColOf(p[2]) = ColOf(p[1]) /\ RowOf(p[2]) = RowOf(p[1]) + 1}

\* C9: for N domains the line strategy hands over exactly the N-1 pairs
\* (i, i+1), i in 0..N-2, each once; the square strategy, with the domains
\* laid row by row in a grid of floor(sqrt(N)) rows and ceil(N / rows)
\* columns, hands over exactly once each pair of a domain and its right
\* neighbour in the row or its bottom neighbour in the column, and no other
\* pair: 7 pairs for N = 6.
C9_LineAndSquarePairs ==
    /\ ConnectedRun("line") =>
          /\ Len(handed) = NumDomains - 1
          /\ \A i \in 0..(NumDomains - 2) :
                Cardinality({k \in 1..Len(handed) : handed[k] = <<i, i + 1>>}) = 1
    /\ ConnectedRun("square") =>
          /\ Range(handed) = GridNeighbours
          /\ Len(handed) = Cardinality(GridNeighbours)
          /\ NumDomains = 6 => Len(handed) = 7

\* a square run over 6 domains that handed over its 7 pairs
C9_Witness ==
    /\ ConnectedRun("square")
    /\ NumDomains = 6
    /\ Len(handed) = 7

\* the domains reached from those in seen over the pairs
RECURSIVE ReachedFrom(_, _)
ReachedFrom(seen, pairs) ==
    LET more == {p[2] : p \in {q \in pairs : q[1] \in seen}}
                \cup {p[1] : p \in {q \in pairs : q[2] \in seen}}
    IN  IF more \subseteq seen THEN seen ELSE ReachedFrom(seen \cup more, pairs)

ConnectsAll(pairs) == ReachedFrom({0}, pairs) = 0..(NumDomains - 1)

\* C10: for N >= 2 domains under line, square or random, the graph of the
\* domains with the handed pairs as edges is connected; under random the
\* first N-1 pairs form a spanning tree of the domains, to which the extra
\* pairs are only added.
C10_DomainsConnected ==
    /\ \A type \in {"line", "square", "random"} :
          ConnectedRun(type) => ConnectsAll(Range(handed))
    /\ ConnectedRun("random") =>
          /\ Len(handed) >= NumDomains - 1
          /\ ConnectsAll(Range(SubSeq(handed, 1, NumDomains - 1)))

\* a random run over 5 domains with an extra pair after the spanning tree
C10_Witness ==
    /\ ConnectedRun("random")
    /\ NumDomains = 5
    /\ Len(handed) = 5

----------------------------------------------------------------------------
(* Properties of the industrial ring *)

\* the base graph has just been generated by the ring strategy
RingGenerated ==
    /\ pc = "s2s"
    /\ G.edges = <<>>
    /\ cfg.topology_type = "industrial_ring_graph"

RingCount == cfg.topology_params.dict.cwsg_num_rings
RingSize == cfg.num_switches \div RingCount
RingNodes(k) == (k * RingSize)..((k + 1) * RingSize - 1)

\* the edges of the base graph as sets of two nodes
BaseEdgeSet == {{base_edges[i][1], base_edges[i][2]} : i \in 1..Len(base_edges)}

\* the cycle over the nodes of ring k
CycleOf(k) ==
    {{i, i + 1} : i \in (k * RingSize)..((k + 1) * RingSize - 2)}
    \cup {{(k + 1) * RingSize - 1, k * RingSize}}

\* the edges inside ring k
Within(k) == {e \in BaseEdgeSet : e \subseteq RingNodes(k)}

\* the edges between a node of ring k and a node of another ring l
Between(k, l) ==
    {e \in BaseEdgeSet : e \cap RingNodes(k) # {} /\ e \cap RingNodes(l) # {}}

RECURSIVE RingReached(_)
RingReached(seen) ==
    LET more == UNION {e \in BaseEdgeSet : e \cap seen # {}}
    IN  IF more \subseteq seen THEN seen ELSE RingReached(seen \cup more)

\* C11: the graph the industrial-ring strategy yields for numRings rings
\* over switchCount nodes is connected; with s = switchCount / numRings >= 3,
\* ring k is the closed cycle over the nodes k*s .. (k+1)*s-1, consecutive
\* rings k and k+1 are joined by exactly one edge, there is no other edge,
\* and the graph has switchCount + numRings - 1 edges.
C11_IndustrialRing ==
    RingGenerated =>
       /\ RingSize >= 3
       /\ RingSize * RingCount = cfg.num_switches
       /\ Len(G.nodes) = cfg.num_switches
       /\ RingReached({0}) = 0..(cfg.num_switches - 1)
       /\ \A k \in 0..(RingCount - 1) : Within(k) = CycleOf(k)
       /\ \A k \in 0..(RingCount - 2) : Cardinality(Between(k, k + 1)) = 1
       /\ \A k, l \in 0..(RingCount - 1) : l > k + 1 => Between(k, l) = {}
       /\ Len(base_edges) = cfg.num_switches + RingCount - 1
       /\ Cardinality(BaseEdgeSet) = cfg.num_switches + RingCount - 1

\* three rings of three nodes
C11_Witness ==
    /\ RingGenerated
    /\ RingCount = 3
    /\ cfg.num_switches = 9

----------------------------------------------------------------------------
(* Properties of the routes of generate() *)

\* the streams generate() has finished with (positions in the stream list)
Handled == 1..stream_index

Emitted(i) == \E r \in 1..Len(routes) : routes[r].flow_id = streams[i].id

DestinationIds(stream) ==
    {stream.destinations[k].id : k \in 1..Len(stream.destinations)}

EndpointsKnown(stream) ==
    {stream.source} \cup DestinationIds(stream) \subseteq RoutingNodeIds(graph)

Reachable(stream) ==
    DestinationIds(stream) \subseteq RoutingReached(graph, {stream.source})

\* the stream of a route
StreamOf(r) == CHOOSE i \in 1..Len(streams) : streams[i].id = routes[r].flow_id

LastNodes(rt) == {rt.paths[p][Len(rt.paths[p])].node : p \in 1..Len(rt.paths)}

\* C12: a stream generate() has finished with has a route if and only if its
\* source and all its destination ids are nodes of the routing graph and
\* every destination is reachable from the source; a route covers every
\* destination of its stream, never only the reachable ones.
C12_RouteIffRoutable ==
    /\ \A i \in Handled :
          Emitted(i) <=> (EndpointsKnown(streams[i]) /\ Reachable(streams[i]))
    /\ \A r \in 1..Len(routes) :
          DestinationIds(streams[StreamOf(r)]) \subseteq LastNodes(routes[r])

\* a returned run with an emitted stream and a stream left out although its
\* endpoints are nodes and one of its two destinations is reachable
C12_Witness ==
    /\ pc = "routes_done"
    /\ \E i, j \in Handled :
          /\ Emitted(i)
          /\ ~Emitted(j)
          /\ EndpointsKnown(streams[j])
          /\ \E a, b \in DestinationIds(streams[j]) :
                /\ HasPath(graph, streams[j].source, a)
                /\ ~HasPath(graph, streams[j].source, b)

\* generate() as a function of the stream list: what the code computes for
\* one stream after the other.  A run is the state <<graph, table, routes,
\* generator state>>; a stream maps it to the runs that may follow, none
\* when the delay estimate raises.
RECURSIVE PathsToAll(_, _, _, _)
PathsToAll(g, consider, stream, k) ==
    IF k > Len(stream.destinations) THEN {[found |-> TRUE, all_paths |-> <<>>]}
    ELSE UNION {
           IF r.paths = <<>> THEN {[found |-> FALSE, all_paths |-> <<>>]}
           ELSE {[rest EXCEPT !.all_paths = r.paths \o @]
                   : rest \in PathsToAll(g, consider, stream, k + 1)}
           : r \in FindPaths(g, consider, stream.source,
                             stream.destinations[k].id,
                             Get(stream, "redundancy", 0) + 1)}

RunStream(run, topo, tts, consider, stream) ==
    IF ~({stream.source} \cup DestinationIds(stream)
            \subseteq RoutingNodeIds(run.graph))
    THEN {run}
    ELSE UNION {
           IF ~ps.found THEN {run}
           ELSE LET d == CalculateMinE2eDelay(ps.all_paths[1],
                                              Get(stream, "type", None),
                                              Get(stream, "deadline", None),
                                              tts, run.np_random)
                    u == UpdateLinkUtilization(run.graph, run.link_utilization,
                                               consider, ps.all_paths, stream)
                IN  IF d.raised THEN {}
                    ELSE {[graph |-> u.graph,
                           link_utilization |-> u.link_utilization,
                           routes |-> Append(run.routes,
                              [flow_id |-> stream.id,
                               paths |-> [i \in 1..Len(ps.all_paths) |->
                                            RoutePath(topo, ps.all_paths[i])],
                               min_e2e_delay |-> d.value]),
                           np_random |-> d.np_random]}
           : ps \in PathsToAll(run.graph, consider, stream, 1)}

RECURSIVE RunStreams(_, _, _, _, _)
RunStreams(run, topo, tts, consider, ss) ==
    IF ss = <<>> THEN {run}
    ELSE UNION {RunStreams(next, topo, tts, consider, Tail(ss))
                  : next \in RunStream(run, topo, tts, consider, Head(ss))}

\* the runs generate() may end with on the stream list ss
GenerateResults(ss) ==
    RunStreams([graph |-> BuildGraph(topology), link_utilization |-> <<>>,
                routes |-> <<>>, np_random |-> np_seed],
               topology, traffic_types, consider_link_utilization, ss)

ThisRun == [graph |-> graph, link_utilization |-> link_utilization,
            routes |-> routes, np_random |-> np_random]

\* the stream list without the streams that were left out
AcceptedStreams ==
    LET pos == SelectSeq([i \in 1..Len(streams) |-> i], LAMBDA i : Emitted(i))
    IN  [k \in 1..Len(pos) |-> streams[pos[k]]]

\* C13: a returned run has handled every stream; its routes are those of
\* distinct streams in stream-list order, each with the stream's id as
\* flow_id; and its routes, its link-utilization table and its graph are a
\* result of generate() on the stream list without the rejected streams,
\* from the same seed.
C13_RejectedStreamsLeaveNoTrace ==
    pc = "routes_done" =>
       /\ stream_index = Len(streams)
       /\ \A r \in 1..Len(routes) :
             \E i \in 1..Len(streams) : streams[i].id = routes[r].flow_id
       /\ \A r1, r2 \in 1..Len(routes) :
             r1 < r2 => StreamOf(r1) < StreamOf(r2)
       /\ ThisRun \in GenerateResults(AcceptedStreams)

\* a returned utilization-aware run in which a stream was left out after the
\* paths to its first destination had been found, and a later stream got a
\* route that was charged to the links
C13_Witness ==
    /\ pc = "routes_done"
    /\ consider_link_utilization
    /\ \E i, j \in 1..Len(streams) :
          /\ i < j
          /\ ~Emitted(i)
          /\ EndpointsKnown(streams[i])
          /\ HasPath(graph, streams[i].source, streams[i].destinations[1].id)
          /\ Emitted(j)
          /\ streams[j].period # None
    /\ DOMAIN link_utilization # {}

\* every Link record of the topology has its reverse record
BothDirections ==
    \A i \in 1..Len(topology.links) :
       \E j \in 1..Len(topology.links) :
          /\ topology.links[j].source = topology.links[i].destination
          /\ topology.links[j].destination = topology.links[i].source

HasLinkRecord(a, b) ==
    \E i \in 1..Len(topology.links) :
       topology.links[i].source = a /\ topology.links[i].destination = b

\* C14: over a topology with both directional Link records of every
\* connection, every path of every emitted route starts at the stream's
\* source and ends at one of its destinations, every destination ends at
\* least one path, and every two consecutive hops (a, b) have a Link record
\* from a to b.
C14_PathInvariants ==
    BothDirections =>
       \A r \in 1..Len(routes) :
          LET rt == routes[r]
              stream == streams[StreamOf(r)]
          IN  /\ \A p \in 1..Len(rt.paths) :
                    /\ Len(rt.paths[p]) >= 1
                    /\ rt.paths[p][1].node = stream.source
                    /\ rt.paths[p][Len(rt.paths[p])].node
                          \in DestinationIds(stream)
                    /\ \A i \in 1..(Len(rt.paths[p]) - 1) :
                          HasLinkRecord(rt.paths[p][i].node,
                                        rt.paths[p][i + 1].node)
              /\ DestinationIds(stream) \subseteq LastNodes(rt)

\* an emitted route to two destinations and an emitted route with two
\* paths to one destination, over a topology with both records everywhere
C14_Witness ==
    /\ BothDirections
    /\ \E r \in 1..Len(routes) :
          Cardinality(DestinationIds(streams[StreamOf(r)])) = 2
    /\ \E r \in 1..Len(routes) :
          /\ Cardinality(DestinationIds(streams[StreamOf(r)])) = 1
          /\ Len(routes[r].paths) = 2

IsEndSystem(id) == id[1] = "ES"

\* the first Link record from a to b in list order
FirstRecord(a, b) ==
    topology.links[CHOOSE i \in 1..Len(topology.links) :
        /\ topology.links[i].source = a /\ topology.links[i].destination = b
        /\ \A j \in 1..(i - 1) : ~(topology.links[j].source = a
                                     /\ topology.links[j].destination = b)]

\* the routes of streams from ES0 to ES1 alone, without redundancy
ExampleRoutes ==
    {r \in 1..Len(routes) :
        LET stream == streams[StreamOf(r)]
        IN  /\ stream.source = EndSystemId(0)
            /\ DestinationIds(stream) = {EndSystemId(1)}
            /\ Len(stream.destinations) = 1
            /\ Get(stream, "redundancy", 0) = 0}

\* C15: in every emitted path a hop that is not the last one carries the
\* sourcePort of the (first) Link record from its node to the next node, or
\* 0 when there is no such record; the last hop carries port 0; every hop
\* at an end system carries port 0.  Over ES0-SW0-SW1-ES1 a stream from ES0
\* to ES1 without redundancy gets the single path ES0, SW0, SW1, ES1 with
\* the ports 0, 2, 6, 0 of the records ES0->SW0, SW0->SW1, SW1->ES1.
C15_HopPorts ==
    /\ \A r \in 1..Len(routes) : \A p \in 1..Len(routes[r].paths) :
          LET path == routes[r].paths[p]
          IN  \A i \in 1..Len(path) :
                 /\ i < Len(path) /\ HasLinkRecord(path[i].node, path[i + 1].node)
                       => path[i].port
                          = FirstRecord(path[i].node, path[i + 1].node).sourcePort
                 /\ i < Len(path) /\ ~HasLinkRecord(path[i].node, path[i + 1].node)
                       => path[i].port = 0
                 /\ i = Len(path) => path[i].port = 0
                 /\ IsEndSystem(path[i].node) => path[i].port = 0
    /\ topology = LineTopology =>
          \A r \in ExampleRoutes :
             routes[r].paths =
                << << [node |-> EndSystemId(0), port |-> 0],
                      [node |-> SwitchId(0), port |-> 2],
                      [node |-> SwitchId(1), port |-> 6],
                      [node |-> EndSystemId(1), port |-> 0] >> >>

\* the route of the example over ES0-SW0-SW1-ES1 has been emitted
C15_Witness ==
    /\ topology = LineTopology
    /\ ExampleRoutes # {}

\* the routes of BEST-EFFORT streams
BestEffortRoutes ==
    {r \in 1..Len(routes) :
        Get(streams[StreamOf(r)], "type", None) = "BEST-EFFORT"}

HasBounds(name) ==
    \E k \in 1..Len(traffic_types) : traffic_types[k].name = name

\* C19: the route of a BEST-EFFORT stream has min_e2e_delay 0, whatever the
\* length of its paths, the bounds configured for the type and the deadline
\* of the stream.
C19_BestEffortDelayZero ==
    \A r \in BestEffortRoutes : routes[r].min_e2e_delay = 0

\* the route of a BEST-EFFORT stream with a deadline, while bounds are
\* configured for BEST-EFFORT
C19_Witness ==
    /\ HasBounds("BEST-EFFORT")
    /\ \E r \in BestEffortRoutes :
          /\ Get(streams[StreamOf(r)], "deadline", None) # None
          /\ Len(routes[r].paths[1]) > 2

----------------------------------------------------------------------------
(* _find_paths on its own: one call between any two nodes of a routing      *)
(* graph on which earlier streams may have left utilization                 *)

MaxNumPaths == 3                \* num_paths = redundancy + 1

\* utilization an edge may carry after earlier streams
UtilizationLevels == {40, FullUtilization}

\* the routing graph of a topology, unused or with one loaded edge
LoadedGraphs(topo) ==
    LET g == BuildGraph(topo)
    IN  {g} \cup {[g EXCEPT !.edges[i].utilization = u]
                    : i \in 1..Len(g.edges), u \in UtilizationLevels}

InitFindPaths ==
    /\ cfg = [num_domains |-> 1, topology_type |-> "mesh_graph",
              topology_params |-> NoParams, num_switches |-> 0,
              num_end_systems |-> 0, domain_connection_type |-> "none",
              connections_per_domain_pair |-> 1]
    /\ pc = "find_paths"
    /\ domain_id = 0
    /\ switch_counter = 0
    /\ node_counter = 0
    /\ link_counter = 0
    /\ used_ports = <<>>
    /\ domain_graphs = <<>>
    /\ G = EmptyGraph
    /\ base_edges = <<>>
    /\ remaining_end_systems = 0
    /\ switch_end_system_counts = <<>>
    /\ topology \in RouteTopologies
    /\ rng = 0
    /\ pending = <<>>
    /\ handed = <<>>
    /\ call = EmptyCall
    /\ exit_at = ""
    /\ conns = <<>>
    /\ gnp = EmptyGnp
    /\ streams = <<>>
    /\ traffic_types = <<>>
    /\ consider_link_utilization \in BOOLEAN
    /\ graph \in LoadedGraphs(topology)
    /\ warnings = 0
    /\ link_utilization = <<>>
    /\ routes = <<>>
    /\ stream_index = 0
    /\ destination_index = 0
    /\ all_paths = <<>>
    /\ route = EmptyRoute
    /\ np_seed = 0
    /\ np_random = 0
    /\ find_paths_call \in
          {[EmptyFindPathsCall EXCEPT !.state = "called", !.source = a,
                                      !.dest = b, !.num_paths = k,
                                      !.graph_before = graph]
             : a \in RoutingNodeIds(graph), b \in RoutingNodeIds(graph),
               k \in 1..MaxNumPaths}
    /\ delay_call = EmptyDelayCall
    /\ found_paths = <<>>
    /\ first_run = EmptyFirstRun

\* the call self._find_paths(source, dest, num_paths)
FindPathsCall ==
    /\ find_paths_call.state = "called"
    /\ \E r \in FindPathsResults(find_paths_call.source, find_paths_call.dest,
                                  find_paths_call.num_paths) :
          /\ find_paths_call' = [find_paths_call EXCEPT
                                   !.state = "returned", !.paths = r.paths,
                                   !.warnings = r.warnings]
          /\ found_paths' =
                DictSet(found_paths,
                        FindPathsArguments(find_paths_call.source,
                                           find_paths_call.dest,
                                           find_paths_call.num_paths), r)
          /\ graph' = GraphAfterFindPaths(graph, find_paths_call.num_paths,
                                          r.paths)
          /\ warnings' = warnings + r.warnings
    /\ UNCHANGED <<cfg, pc, domain_id, switch_counter, node_counter,
                   link_counter, used_ports, domain_graphs, G, base_edges,
                   remaining_end_systems, switch_end_system_counts, topology,
                   rng, pending, handed, call, exit_at, conns, gnp>>
    /\ UNCHANGED <<streams, traffic_types, consider_link_utilization,
                   link_utilization, routes, stream_index, destination_index,
                   all_paths, route, np_random, np_seed, delay_call,
                   first_run>>

\* the same call once more, with nothing accounted in between
FindPathsCallAgain ==
    /\ find_paths_call.state = "returned"
    /\ \E r \in FindPathsResults(find_paths_call.source, find_paths_call.dest,
                                  find_paths_call.num_paths) :
          /\ find_paths_call' = [find_paths_call EXCEPT
                                   !.state = "returned_again",
                                   !.again = r.paths]
          /\ found_paths' =
                DictSet(found_paths,
                        FindPathsArguments(find_paths_call.source,
                                           find_paths_call.dest,
                                           find_paths_call.num_paths), r)
          /\ graph' = GraphAfterFindPaths(graph, find_paths_call.num_paths,
                                          r.paths)
          /\ warnings' = warnings + r.warnings
    /\ UNCHANGED <<cfg, pc, domain_id, switch_counter, node_counter,
                   link_counter, used_ports, domain_graphs, G, base_edges,
                   remaining_end_systems, switch_end_system_counts, topology,
                   rng, pending, handed, call, exit_at, conns, gnp>>
    /\ UNCHANGED <<streams, traffic_types, consider_link_utilization,
                   link_utilization, routes, stream_index, destination_index,
                   all_paths, route, np_random, np_seed, delay_call,
                   first_run>>

NextFindPaths ==
    \/ FindPathsCall
    \/ FindPathsCallAgain

SpecFindPaths == InitFindPaths /\ [][NextFindPaths]_vars

----------------------------------------------------------------------------
(* Properties of _find_paths *)

FindPathsReturned == find_paths_call.state = "returned"

\* the simple paths of the graph between the endpoints of the call
CallSimplePaths ==
    SimplePaths(graph, find_paths_call.source, find_paths_call.dest)

CallReachable == HasPath(graph, find_paths_call.source, find_paths_call.dest)

FoundPaths == find_paths_call.paths

\* C16: for a reachable destination _find_paths returns at least 1 and at
\* most num_paths paths, pairwise distinct, each from source to dest; for an
\* unreachable destination it returns the empty list; between nodes with
\* exactly one path and num_paths = 2 it returns exactly 1 path; the call
\* always has a result.
C16_FindPathsResult ==
    /\ find_paths_call.state = "called" =>
          FindPaths(graph, consider_link_utilization, find_paths_call.source,
                    find_paths_call.dest, find_paths_call.num_paths) # {}
    /\ FindPathsReturned =>
          /\ CallReachable =>
                /\ Len(FoundPaths) \in 1..find_paths_call.num_paths
                /\ \A i, j \in 1..Len(FoundPaths) :
                      i # j => FoundPaths[i] # FoundPaths[j]
                /\ \A i \in 1..Len(FoundPaths) :
                      /\ FoundPaths[i][1] = find_paths_call.source
                      /\ FoundPaths[i][Len(FoundPaths[i])] = find_paths_call.dest
          /\ ~CallReachable => FoundPaths = <<>>
          /\ (CallReachable /\ Cardinality(CallSimplePaths) = 1
                /\ find_paths_call.num_paths = 2) => Len(FoundPaths) = 1

\* a call for 3 paths that returned 2
C16_Witness ==
    /\ FindPathsReturned
    /\ find_paths_call.num_paths = 3
    /\ Len(FoundPaths) = 2

\* a call for 2 paths between nodes joined by exactly one path returned 1
UniquePathCallReturned ==
    /\ FindPathsReturned
    /\ find_paths_call.num_paths = 2
    /\ find_paths_call.source # find_paths_call.dest
    /\ Cardinality(CallSimplePaths) = 1
    /\ Len(FoundPaths) = 1

\* C17 as claimed: a search that returned fewer paths than requested has
\* accepted every simple path between source and dest.
C17_StopsOnlyWhenExhausted ==
    (FindPathsReturned /\ CallReachable
       /\ Len(FoundPaths) < find_paths_call.num_paths)
    => CallSimplePaths \subseteq Range(FoundPaths)

\* the weight of a path when every edge weighs 1 doubled once per accepted
\* path that uses it
DoubledCost(path) ==
    SumOver([st \in PathSteps(path) |->
                Pow(2, Cardinality({i \in 1..Len(FoundPaths) :
                          \E t \in PathSteps(FoundPaths[i]) :
                             {t[1], t[2]} = {st[1], st[2]}}))],
            PathSteps(path))

\* C17: the search stops when the requested count is reached or when an
\* attempt returns an accepted path: a search that returned fewer paths than
\* requested has accepted a path of least doubled weight, so every simple
\* path it has not accepted weighs at least as much as some accepted one.
C17_StopsWhenCheapestIsAccepted ==
    (FindPathsReturned /\ CallReachable
       /\ Len(FoundPaths) < find_paths_call.num_paths)
    => \E i \in 1..Len(FoundPaths) :
          \A q \in CallSimplePaths : DoubledCost(FoundPaths[i]) <= DoubledCost(q)

\* a search for 2 paths that returned 1 although another simple path exists
C17_Witness ==
    /\ FindPathsReturned
    /\ find_paths_call.num_paths = 2
    /\ Len(FoundPaths) = 1
    /\ CallSimplePaths \ Range(FoundPaths) # {}

\* the cost of a path as the claim defines it
ClaimedCost(path) ==
    IF consider_link_utilization
    THEN SumOver([st \in PathSteps(path) |->
                     1 + EdgeData(graph, st[1], st[2]).utilization],
                 PathSteps(path))
    ELSE Len(path) - 1

\* C18: the first path returned is a path of least cost between source and
\* dest, the cost being the number of edges without utilization-aware
\* routing and the sum of 1 + utilization over the edges with it.
C18_FirstPathIsCheapest ==
    (FindPathsReturned /\ FoundPaths # <<>>)
    => \A q \in CallSimplePaths :
          ClaimedCost(FoundPaths[1]) <= ClaimedCost(q)

\* a utilization-aware call whose first path is longer than another path
C18_Witness ==
    /\ FindPathsReturned
    /\ consider_link_utilization
    /\ FoundPaths # <<>>
    /\ \E q \in CallSimplePaths : Len(q) < Len(FoundPaths[1])

----------------------------------------------------------------------------
(* _calculate_min_e2e_delay on its own: one call for a path of any length,  *)
(* any traffic type and deadline, in any generator state                    *)

MaxDelayPathNodes == 5          \* nodes of the path handed over

DelayTypeNames ==
    {"BEST-EFFORT", "CONTROL", "AUDIO", "VIDEO", "INVERTED", "UNKNOWN"}

DelayDeadlines == {None, 300, 2000}

InitDelay ==
    /\ cfg = [num_domains |-> 1, topology_type |-> "mesh_graph",
              topology_params |-> NoParams, num_switches |-> 0,
              num_end_systems |-> 0, domain_connection_type |-> "none",
              connections_per_domain_pair |-> 1]
    /\ pc = "min_e2e_delay"
    /\ domain_id = 0
    /\ switch_counter = 0
    /\ node_counter = 0
    /\ link_counter = 0
    /\ used_ports = <<>>
    /\ domain_graphs = <<>>
    /\ G = EmptyGraph
    /\ base_edges = <<>>
    /\ remaining_end_systems = 0
    /\ switch_end_system_counts = <<>>
    /\ topology = [switches |-> <<>>, end_systems |-> <<>>, links |-> <<>>]
    /\ rng = 0
    /\ pending = <<>>
    /\ handed = <<>>
    /\ call = EmptyCall
    /\ exit_at = ""
    /\ conns = <<>>
    /\ gnp = EmptyGnp
    /\ streams = <<>>
    /\ traffic_types \in TrafficTypeTables
    /\ consider_link_utilization = FALSE
    /\ graph = EmptyRoutingGraph
    /\ warnings = 0
    /\ link_utilization = <<>>
    /\ routes = <<>>
    /\ stream_index = 0
    /\ destination_index = 0
    /\ all_paths = <<>>
    /\ route = EmptyRoute
    /\ np_seed \in 0..(Len(DelaySamples) - 1)
    /\ np_random = np_seed
    /\ find_paths_call = EmptyFindPathsCall
    /\ delay_call \in
          {[EmptyDelayCall EXCEPT !.state = "called",
                                  !.path = [i \in 1..n |-> SwitchId(i - 1)],
                                  !.traffic_type = t, !.deadline = d,
                                  !.np_random = np_random]
             : n \in 1..MaxDelayPathNodes, t \in DelayTypeNames,
               d \in DelayDeadlines}
    /\ found_paths = <<>>
    /\ first_run = EmptyFirstRun

\* the call self._calculate_min_e2e_delay(path, traffic_type, deadline)
DelayCall ==
    /\ delay_call.state = "called"
    /\ LET d == CalculateMinE2eDelay(delay_call.path, delay_call.traffic_type,
                                     delay_call.deadline, traffic_types,
                                     np_random)
       IN  /\ delay_call' = [delay_call EXCEPT
                               !.state = IF d.raised THEN "raised"
                                         ELSE "returned",
                               !.result = d.value]
           /\ np_random' = d.np_random
    /\ UNCHANGED <<cfg, pc, domain_id, switch_counter, node_counter,
                   link_counter, used_ports, domain_graphs, G, base_edges,
                   remaining_end_systems, switch_end_system_counts, topology,
                   rng, pending, handed, call, warnings, exit_at, conns, gnp>>
    /\ UNCHANGED <<streams, traffic_types, consider_link_utilization, graph,
                   link_utilization, routes, stream_index, destination_index,
                   all_paths, route, np_seed, find_paths_call,
                   found_paths, first_run>>

NextDelay == DelayCall

SpecDelay == InitDelay /\ [][NextDelay]_vars

----------------------------------------------------------------------------
(* Properties of _calculate_min_e2e_delay *)

\* the bounds configured for the traffic type of the call
CallBounds == GetDelaysFromTrafficType(delay_call.traffic_type, traffic_types)

\* x clipped into [lo, hi], for lo <= hi
ClippedInto(x, lo, hi) == IF x < lo THEN lo ELSE IF x > hi THEN hi ELSE x

\* the number of links of the path of the call
CallHops == Len(delay_call.path) - 1

\* the case of the claim: not BEST-EFFORT, bounds min <= max, no deadline
BoundedCallWithoutDeadline ==
    /\ delay_call.state # "idle"
    /\ delay_call.traffic_type # "BEST-EFFORT"
    /\ CallBounds.found
    /\ CallBounds.min_delay # None /\ CallBounds.max_delay # None
    /\ CallBounds.min_delay <= CallBounds.max_delay
    /\ delay_call.deadline = None

\* C20: for a type other than BEST-EFFORT with bounds min <= max and no
\* deadline the call returns h * c, h the number of links of the path and c
\* the sampled per-hop delay clipped into [min, max]; so the result lies
\* between h * min and h * max, and sample 250 with bounds (100, 500) over
\* 3 links gives 750.
C20_DelayIsHopsTimesClippedSample ==
    BoundedCallWithoutDeadline =>
       /\ delay_call.state # "raised"
       /\ delay_call.state = "returned" =>
             LET c == ClippedInto(DelaySample(delay_call.np_random),
                                  CallBounds.min_delay, CallBounds.max_delay)
             IN  /\ delay_call.result = CallHops * c
                 /\ delay_call.result >= CallHops * CallBounds.min_delay
                 /\ delay_call.result <= CallHops * CallBounds.max_delay
                 /\ (DelaySample(delay_call.np_random) = 250
                       /\ CallBounds.min_delay = 100
                       /\ CallBounds.max_delay = 500
                       /\ CallHops = 3) => delay_call.result = 750

\* the call of the example has returned
C20_Witness ==
    /\ BoundedCallWithoutDeadline
    /\ delay_call.state = "returned"
    /\ DelaySample(delay_call.np_random) = 250
    /\ CallBounds.min_delay = 100 /\ CallBounds.max_delay = 500
    /\ CallHops = 3
    /\ delay_call.result = 750

----------------------------------------------------------------------------
(* The deadline of a stream and the delay estimate of its route *)

\* the routes of streams of a type other than BEST-EFFORT whose first
\* destination carries a deadline
DeadlineRoutes ==
    {r \in 1..Len(routes) :
        /\ Get(streams[StreamOf(r)], "type", None) # "BEST-EFFORT"
        /\ streams[StreamOf(r)].destinations[1].deadline # None}

\* C21: the route of a stream of a type other than BEST-EFFORT whose first
\* destination carries a deadline has a min_e2e_delay of at most that
\* deadline.
C21_DelayWithinDeadline ==
    \A r \in DeadlineRoutes :
        routes[r].min_e2e_delay
            <= streams[StreamOf(r)].destinations[1].deadline

----------------------------------------------------------------------------
(* Missing delay bounds *)

\* no minDelay/maxDelay pair is configured for the type of the stream, which
\* is not BEST-EFFORT
MissingBounds(stream) ==
    LET result == GetDelaysFromTrafficType(Get(stream, "type", None),
                                           traffic_types)
    IN  /\ Get(stream, "type", None) # "BEST-EFFORT"
        /\ \/ ~result.found
           \/ result.min_delay = None
           \/ result.max_delay = None

\* the stream passes the endpoint validation and the path search and has no
\* delay bounds
FatalStream(stream) ==
    /\ EndpointsKnown(stream)
    /\ Reachable(stream)
    /\ DestinationIds(stream) # {}
    /\ MissingBounds(stream)

\* the run has ended with the ValueError of _calculate_min_e2e_delay
AbortedOnBounds == pc = "exit" /\ exit_at = "min_e2e_delay"

\* C22: a stream that passes the endpoint validation and the path search and
\* whose type, other than BEST-EFFORT, has no minDelay/maxDelay pair ends
\* the run with an error: generate() never gets past such a stream (it is
\* neither skipped nor routed), so it never returns routes, those of the
\* streams before it included; and the run ends this way only at such a
\* stream.
C22_MissingBoundsAbortTheRun ==
    /\ \A i \in Handled : ~FatalStream(streams[i])
    /\ \A r \in 1..Len(routes) : ~FatalStream(streams[StreamOf(r)])
    /\ pc = "route_account" => ~FatalStream(CurrentStream)
    /\ pc = "routes_done" =>
          \A i \in 1..Len(streams) : ~FatalStream(streams[i])
    /\ AbortedOnBounds =>
          /\ stream_index < Len(streams)
          /\ FatalStream(CurrentStream)

\* the run has ended at the second stream, after the first one was routed
C22_Witness ==
    /\ AbortedOnBounds
    /\ stream_index = 1
    /\ Len(routes) = 1
    /\ FatalStream(CurrentStream)

----------------------------------------------------------------------------
(* Link utilization during a run *)

\* the indices of the edges of the routing graph
EdgeIndices == 1..Len(graph.edges)

\* every recorded utilization lies between 0 and 100
UtilizationInRange ==
    /\ \A k \in EdgeIndices :
          /\ graph.edges[k].utilization >= 0
          /\ graph.edges[k].utilization <= FullUtilization
    /\ \A id \in DOMAIN link_utilization :
          /\ link_utilization[id] >= 0
          /\ link_utilization[id] <= FullUtilization

\* the edge k is traversed by a path of the stream being accounted
Traversed(k) ==
    \E p \in 1..Len(all_paths) : \E i \in 1..(Len(all_paths[p]) - 1) :
        {all_paths[p][i], all_paths[p][i + 1]}
            = {graph.edges[k].u, graph.edges[k].v}

\* the stream being accounted is charged to the links of its paths
Accounted ==
    /\ pc = "route_account"
    /\ consider_link_utilization
    /\ CurrentStream.period # None

\* one step of a run: no utilization decreases; the accounting of a stream
\* whose share carries a link past 100 records exactly 100 for it, and the
\* route of the stream is appended
UtilizationStep ==
    /\ Len(graph'.edges) = Len(graph.edges)
    /\ \A k \in EdgeIndices :
          graph'.edges[k].utilization >= graph.edges[k].utilization
    /\ \A id \in DOMAIN link_utilization :
          /\ id \in DOMAIN link_utilization'
          /\ link_utilization'[id] >= link_utilization[id]
    /\ Accounted =>
          /\ routes' = Append(routes, route)
          /\ \A k \in EdgeIndices :
                (/\ Traversed(k)
                 /\ graph.edges[k].utilization
                      + StreamUtilization(CurrentStream,
                                          graph.edges[k].bandwidth_mbps)
                    > FullUtilization)
                => /\ graph'.edges[k].utilization = FullUtilization
                   /\ link_utilization'[graph.edges[k].link_id]
                         = FullUtilization

\* C23: at every point of a run the recorded utilization of every link lies
\* between 0 and 100; a stream whose share would carry a link past 100
\* leaves exactly 100 recorded for it and is still routed; no utilization
\* ever decreases.
C23_UtilizationSaturates == []UtilizationInRange /\ [][UtilizationStep]_vars

\* a routed stream whose share of 60 on a link, charged more than once, has
\* left the link at exactly 100
C23_Witness ==
    /\ consider_link_utilization
    /\ stream_index >= 1
    /\ Emitted(stream_index)
    /\ streams[stream_index].period # None
    /\ \E k \in EdgeIndices :
          /\ graph.edges[k].utilization = FullUtilization
          /\ StreamUtilization(streams[stream_index],
                               graph.edges[k].bandwidth_mbps) = 60
          /\ link_utilization[graph.edges[k].link_id] = FullUtilization

----------------------------------------------------------------------------
(* The accounting step of a stream *)

\* how many steps of the paths of the stream being accounted use edge k
Traversals(k) ==
    Cardinality({s \in UNION {{<<p, i>> : i \in 1..(Len(all_paths[p]) - 1)} :
                                 p \in 1..Len(all_paths)} :
                    {all_paths[s[1]][s[2]], all_paths[s[1]][s[2] + 1]}
                       = {graph.edges[k].u, graph.edges[k].v}})

\* the share of the stream being accounted on edge k, in percent
Share(k) == StreamUtilization(CurrentStream, graph.edges[k].bandwidth_mbps)

\* the accounting step leaves the graph and the table as they are
NothingCharged ==
    /\ graph' = graph
    /\ link_utilization' = link_utilization

\* the accounting step charges the links of the paths: a link used once
\* gains the share of the stream, up to 100, a link used more often at least
\* that, and the other links keep their utilization
LinksCharged ==
    /\ Len(graph'.edges) = Len(graph.edges)
    /\ \A k \in EdgeIndices :
          LET before == graph.edges[k].utilization
              after == graph'.edges[k].utilization
          IN  /\ graph'.edges[k] = [graph.edges[k] EXCEPT !.utilization = after]
              /\ Traversals(k) = 0 => after = before
              /\ Traversals(k) = 1 =>
                    after = Min(FullUtilization, before + Share(k))
              /\ Traversals(k) >= 1 =>
                    /\ after >= Min(FullUtilization, before + Share(k))
                    /\ link_utilization'[graph.edges[k].link_id] = after

\* the claim as stated: the accounting is skipped exactly for the streams
\* without a period
C24_SkippedExactlyWithoutPeriod ==
    [][pc = "route_account" =>
          /\ routes' = Append(routes, route)
          /\ CurrentStream.period = None => NothingCharged
          /\ CurrentStream.period # None => LinksCharged]_vars

\* C24: with utilization considered, the accounting is skipped exactly for
\* the streams without a period: the route of a stream with a period adds
\* the share of the stream (size * 8 bits per period over the bandwidth of
\* the link, in percent) to every link its paths use, up to 100, and a
\* stream without a period leaves every utilization as it is; with
\* utilization not considered no stream changes a utilization.
C24_SkippedWithoutPeriodOrFlag ==
    [][pc = "route_account" =>
          /\ routes' = Append(routes, route)
          /\ (~consider_link_utilization \/ CurrentStream.period = None)
                => NothingCharged
          /\ (consider_link_utilization /\ CurrentStream.period # None)
                => LinksCharged]_vars

\* a stream with a period has been charged to a link and a stream without a
\* period has been routed after it
C24_Witness ==
    /\ consider_link_utilization
    /\ stream_index = 2
    /\ Emitted(1) /\ Emitted(2)
    /\ streams[1].period # None
    /\ streams[2].period = None
    /\ \E k \in EdgeIndices :
          /\ graph.edges[k].utilization
                = StreamUtilization(streams[1], graph.edges[k].bandwidth_mbps)
          /\ graph.edges[k].utilization \in {4, 6, 40, 60}

----------------------------------------------------------------------------
(* Two runs on the same inputs with the same seed: np.random.seed and a new *)
(* RouteGenerator, then generate() again.                                   *)

\* a faulty second run: the seed is not set again
ConstructAgainUnseeded ==
    /\ pc \in {"routes_done", "exit"}
    /\ ~first_run.done
    /\ first_run' = [done |-> TRUE, pc |-> pc, exit_at |-> exit_at,
                     routes |-> routes, warnings |-> warnings]
    /\ pc' = "route_stream"
    /\ exit_at' = ""
    /\ graph' = BuildGraph(topology)
    /\ warnings' = BuildGraphWarnings(graph')
    /\ link_utilization' = <<>>
    /\ routes' = <<>>
    /\ stream_index' = 0
    /\ destination_index' = 0
    /\ all_paths' = <<>>
    /\ route' = EmptyRoute
    /\ UNCHANGED <<np_random, cfg, domain_id, switch_counter, node_counter,
                   link_counter, used_ports, domain_graphs, G, base_edges,
                   remaining_end_systems, switch_end_system_counts, topology,
                   rng, pending, handed, call, conns, gnp, streams,
                   traffic_types, consider_link_utilization, np_seed,
                   find_paths_call, delay_call, found_paths>>

\* the first run is over: the seed is set and a RouteGenerator is
\* constructed on the same topology, streams and configuration
ConstructAgain ==
    /\ pc \in {"routes_done", "exit"}
    /\ ~first_run.done
    /\ first_run' = [done |-> TRUE, pc |-> pc, exit_at |-> exit_at,
                     routes |-> routes, warnings |-> warnings]
    /\ pc' = "route_stream"
    /\ exit_at' = ""
    /\ graph' = BuildGraph(topology)
    /\ warnings' = BuildGraphWarnings(graph')
    /\ link_utilization' = <<>>
    /\ routes' = <<>>
    /\ stream_index' = 0
    /\ destination_index' = 0
    /\ all_paths' = <<>>
    /\ route' = EmptyRoute
    /\ np_random' = np_seed
    /\ UNCHANGED <<cfg, domain_id, switch_counter, node_counter,
                   link_counter, used_ports, domain_graphs, G, base_edges,
                   remaining_end_systems, switch_end_system_counts, topology,
                   rng, pending, handed, call, conns, gnp, streams,
                   traffic_types, consider_link_utilization, np_seed,
                   find_paths_call, delay_call, found_paths>>

NextRepeat ==
    \/ NextRoute
    \/ ConstructAgain

SpecRepeat == InitRoute /\ [][NextRepeat]_vars

\* the second run has ended
SecondRunEnded == first_run.done /\ pc \in {"routes_done", "exit"}

----------------------------------------------------------------------------
(* The routing graph of a topology *)

\* the unordered node pairs that have a Link record
LinkPairs ==
    {{topology.links[i].source, topology.links[i].destination} :
        i \in 1..Len(topology.links)}

\* the first Link record of an unordered node pair in list order
FirstRecordOfPair(pair) ==
    topology.links[CHOOSE i \in 1..Len(topology.links) :
        /\ {topology.links[i].source, topology.links[i].destination} = pair
        /\ \A j \in 1..(i - 1) :
              {topology.links[j].source, topology.links[j].destination} # pair]

\* the ids of the entries of a node list
EntryIds(entries) == {entries[i].id : i \in 1..Len(entries)}

\* the indices of the nodes of the routing graph with the id
NodesWithId(id) == {n \in 1..Len(graph.nodes) : graph.nodes[n].id = id}

\* the indices of the edges of the routing graph between the pair
EdgesOfPair(pair) ==
    {k \in EdgeIndices : {graph.edges[k].u, graph.edges[k].v} = pair}

\* the generator has been constructed and no stream has been handled
JustBuilt == pc = "route_stream" /\ stream_index = 0 /\ ~first_run.done

\* C26: the routing graph has one node per switch and per end system, of
\* its type, and exactly one edge per unordered node pair with a Link
\* record; the edge carries the link id, the ports and the bandwidth of the
\* first record of the pair in list order, and utilization 0.  The
\* construction succeeds when end systems are disconnected: it logs one
\* summary warning and one warning per pair.
C26_GraphOfTopology ==
    JustBuilt =>
       /\ \A id \in EntryIds(topology.switches) :
             /\ Cardinality(NodesWithId(id)) = 1
             /\ \A n \in NodesWithId(id) : graph.nodes[n].type = "switch"
       /\ \A id \in EntryIds(topology.end_systems) :
             /\ Cardinality(NodesWithId(id)) = 1
             /\ \A n \in NodesWithId(id) : graph.nodes[n].type = "end_system"
       /\ Len(graph.nodes)
             = Cardinality(EntryIds(topology.switches)
                           \cup EntryIds(topology.end_systems))
       /\ Len(graph.edges) = Cardinality(LinkPairs)
       /\ \A pair \in LinkPairs :
             /\ Cardinality(EdgesOfPair(pair)) = 1
             /\ \A k \in EdgesOfPair(pair) :
                   LET first == FirstRecordOfPair(pair)
                       e == graph.edges[k]
                   IN  /\ e.u = first.source /\ e.v = first.destination
                       /\ e.link_id = first.id
                       /\ e.sourcePort = first.sourcePort
                       /\ e.destinationPort = first.destinationPort
                       /\ e.bandwidth_mbps = LinkBandwidth(topology, first)
                       /\ e.utilization = 0
       /\ warnings = IF DisconnectedPairs(graph) = {} THEN 0
                     ELSE 1 + Cardinality(DisconnectedPairs(graph))

\* the graph of a topology with parallel links between two switches, whose
\* first record runs from SW1 to SW0, and with an isolated end system
C26_Witness ==
    /\ JustBuilt
    /\ topology = ParallelTopology
    /\ DisconnectedPairs(graph) # {}
    /\ warnings > 0
    /\ \E k \in EdgeIndices :
          /\ graph.edges[k].u = SwitchId(1) /\ graph.edges[k].v = SwitchId(0)
          /\ graph.edges[k].link_id = 6
          /\ graph.edges[k].sourcePort = 5
          /\ graph.edges[k].destinationPort = 4
    /\ Cardinality({i \in 1..Len(topology.links) :
                       {topology.links[i].source, topology.links[i].destination}
                          = {SwitchId(0), SwitchId(1)}}) = 4

----------------------------------------------------------------------------
(* The order of a run *)

\* the node lists of the paths of a route
NodePaths(rt) ==
    [p \in 1..Len(rt.paths) |->
        [i \in 1..Len(rt.paths[p]) |-> rt.paths[p][i].node]]

\* the graph and the table after the accounting of the first n routes, in
\* their order, on the graph as built
RECURSIVE ChargedThrough(_)
ChargedThrough(n) ==
    IF n = 0 THEN [graph |-> BuildGraph(topology), link_utilization |-> <<>>]
    ELSE LET before == ChargedThrough(n - 1)
         IN  UpdateLinkUtilization(before.graph, before.link_utilization,
                                   consider_link_utilization,
                                   NodePaths(routes[n]), streams[StreamOf(n)])

\* in every state of a run: the routes are those of streams already handled,
\* in list order; the utilization is the one left by exactly these routes;
\* the first path found for the stream in hand is a cheapest path to its
\* first destination on that utilization
OrderInvariant ==
    /\ \A r \in 1..Len(routes) : StreamOf(r) <= stream_index
    /\ \A r1, r2 \in 1..Len(routes) : r1 < r2 => StreamOf(r1) < StreamOf(r2)
    /\ graph = ChargedThrough(Len(routes)).graph
    /\ link_utilization = ChargedThrough(Len(routes)).link_utilization
    /\ (pc = "route_paths" /\ all_paths # <<>>) =>
          all_paths[1] \in
             ShortestPaths(graph, CurrentStream.source,
                           CurrentStream.destinations[1].id,
                           [e \in Range(graph.edges) |->
                               FirstPathWeight(consider_link_utilization, e)])

\* in every step of a run: a stream goes through the endpoint checks, the
\* path search, the route definition and the accounting, then the next
\* stream of the list starts; the utilization changes in the accounting
\* alone, which follows the search for the last destination
OrderStep ==
    /\ stream_index' \in {stream_index, stream_index + 1}
    /\ stream_index' = stream_index + 1 => pc' = "route_stream"
    /\ pc = "route_stream" =>
          /\ pc' \in {"route_paths", "route_stream", "routes_done"}
          /\ pc' = "routes_done" => stream_index = Len(streams)
    /\ pc = "route_paths" =>
          /\ pc' \in {"route_paths", "route_stream", "route_account", "exit"}
          /\ pc' = "route_account" =>
                /\ destination_index = Len(CurrentStream.destinations)
                /\ stream_index' = stream_index
    /\ pc = "route_account" =>
          /\ pc' = "route_stream"
          /\ stream_index' = stream_index + 1
          /\ routes' = Append(routes, route)
    /\ pc # "route_account" =>
          /\ graph' = graph
          /\ link_utilization' = link_utilization
          /\ routes' = routes

\* C27: the streams are handled strictly in list order, each through the
\* endpoint checks, the path search, the route definition and the
\* accounting; the utilization charged by a stream is in place before the
\* path search of every later stream starts, so that the primary path of a
\* stream is a cheapest path on the utilization left by the streams before
\* it; within a stream the paths to all destinations are found before any
\* of its utilization is charged.
C27_StreamsInListOrder == []OrderInvariant /\ [][OrderStep]_vars

\* the path search of the second stream is under way on links the first
\* stream has been charged to, and its primary path is not one of the
\* paths with the fewest hops
C27_Witness ==
    /\ consider_link_utilization
    /\ pc = "route_paths"
    /\ stream_index = 1
    /\ Len(routes) = 1
    /\ all_paths # <<>>
    /\ \E k \in EdgeIndices : graph.edges[k].utilization > 0
    /\ all_paths[1] \notin
          ShortestPaths(graph, CurrentStream.source,
                        CurrentStream.destinations[1].id,
                        [e \in Range(graph.edges) |-> 1])

----------------------------------------------------------------------------
(* _find_paths and the routing graph *)

\* a call of _find_paths has returned, once or twice
FindPathsOver == find_paths_call.state \in {"returned", "returned_again"}

\* C28: a call of _find_paths, for any requested number of paths, leaves
\* the nodes, the edges and every edge attribute of the routing graph as
\* they were, and adds no weight attribute: the doubled weights live in
\* copies alone; the same call made again with nothing accounted in between
\* returns the same paths.
C28_FindPathsWorksOnCopies ==
    /\ FindPathsOver =>
          /\ graph = find_paths_call.graph_before
          /\ \A k \in EdgeIndices :
                DOMAIN graph.edges[k]
                   = {"u", "v", "link_id", "sourcePort", "destinationPort",
                      "bandwidth_mbps", "utilization"}
    /\ find_paths_call.state = "returned_again" =>
          find_paths_call.again = find_paths_call.paths

\* a call for three paths, in which weights were doubled, has been made
\* twice and has returned two paths each time
C28_Witness ==
    /\ find_paths_call.state = "returned_again"
    /\ find_paths_call.num_paths = 3
    /\ Len(find_paths_call.paths) = 2
    /\ find_paths_call.again = find_paths_call.paths
    /\ graph = find_paths_call.graph_before

----------------------------------------------------------------------------
(* Links used by several paths of a stream *)

\* how many steps of the paths of a route use edge k
RouteTraversals(rt, k) ==
    Cardinality({s \in UNION {{<<p, i>> : i \in 1..(Len(rt.paths[p]) - 1)} :
                                 p \in 1..Len(rt.paths)} :
                    {rt.paths[s[1]][s[2]].node, rt.paths[s[1]][s[2] + 1].node}
                       = {graph.edges[k].u, graph.edges[k].v}})

\* C29: in the accounting step of a stream with a period, with utilization
\* considered, a link used by p of the stream's paths is charged the share
\* of the stream p times: its utilization afterwards is
\* min(100, utilization before + p * share).
C29_ChargedOncePerPath ==
    [][Accounted =>
          \A k \in EdgeIndices :
             /\ graph'.edges[k].utilization
                   = Min(FullUtilization,
                         graph.edges[k].utilization
                         + Traversals(k) * Share(k))
             /\ Traversals(k) > 0 =>
                   link_utilization'[graph.edges[k].link_id]
                      = graph'.edges[k].utilization]_vars

\* the first stream, with a share of 40 on a link that two of its paths
\* use, has left that link at 2 * 40 = 80, not at 40
C29_Witness ==
    /\ consider_link_utilization
    /\ pc = "route_stream"
    /\ stream_index = 1
    /\ Len(routes) = 1
    /\ streams[1].period # None
    /\ \E k \in EdgeIndices :
          /\ RouteTraversals(routes[1], k) = 2
          /\ StreamUtilization(streams[1], graph.edges[k].bandwidth_mbps) = 40
          /\ graph.edges[k].utilization = 80

----------------------------------------------------------------------------
(* The ports of a Link record and the switches they were allocated on *)

\* the Link record runs along a connection as it was made: from a, with the
\* port allocated on a, to b, with the port allocated on b
AlongConnection(link, c) ==
    /\ link.source = c.a /\ link.destination = c.b
    /\ link.sourcePort = c.pa /\ link.destinationPort = c.pb

\* the Link record runs against a connection as it was made
AgainstConnection(link, c) ==
    /\ link.source = c.b /\ link.destination = c.a
    /\ link.sourcePort = c.pb /\ link.destinationPort = c.pa

\* C30: in a returned topology every Link record carries, as sourcePort, the
\* port that was allocated on its source for the connection it belongs to
\* and, as destinationPort, the port allocated on its destination: the
\* ports of an edge are never attributed to the opposite endpoint.  A port
\* of a switch is a member of the used-port set of that switch.
C30_PortsBelongToTheirSwitch ==
    Returned =>
       \A i \in LinkIndex :
          /\ \E c \in 1..Len(conns) :
                \/ AlongConnection(Links[i], conns[c])
                \/ AgainstConnection(Links[i], conns[c])
          /\ IsSwitch(Links[i].source) =>
                Links[i].sourcePort \in used_ports[Links[i].source]
          /\ IsSwitch(Links[i].destination) =>
                Links[i].destinationPort \in used_ports[Links[i].destination]

\* a returned topology with a Link record between two switches whose two
\* ports differ, so that a swap would show, and with a record that runs
\* against its connection
C30_Witness ==
    /\ Returned
    /\ \E i \in LinkIndex :
          /\ IsSwitch(Links[i].source) /\ IsSwitch(Links[i].destination)
          /\ Links[i].sourcePort # Links[i].destinationPort
          /\ \E c \in 1..Len(conns) : AgainstConnection(Links[i], conns[c])
          /\ Links[i].sourcePort \notin used_ports[Links[i].destination]

====
